---- MODULE Spec2Model ----
(***************************************************************************)
(* Model of glotaran's optimization data providers                         *)
(* (src/glotaran/optimization/data_provider.py), of the parameter store    *)
(* (src/glotaran/parameter/parameter_group.py), of the simulation          *)
(* (src/glotaran/simulation/simulation.py) and of the reduction of the     *)
(* matrices by the relations of a model.                                   *)
(*                                                                         *)
(* A DataProviderLinked is constructed from a scheme (datasets, model      *)
(* weights, clp_link_tolerance, clp_link_method) and a dataset group.      *)
(* The construction is modelled as a state machine: one step per dataset   *)
(* of DataProvider.__init__, one step per dataset of                       *)
(* create_aligned_global_axes, and one step for each of align_data,        *)
(* align_dataset_indices, align_groups and align_weights.                  *)
(*                                                                         *)
(* Numbers are integers (coordinates and tolerances on a common grid).     *)
(* A data value is <<v>> for the number v and <<>> for NaN.  None is <<>>. *)
(* Datasets are identified by their position in dataset_models; the labels *)
(* are kept in the sequence labels.  Arrays over (model, global) are       *)
(* sequences of rows: a[m][g].  Indices into arrays are 1-based here and   *)
(* converted where the code exposes 0-based indices.                       *)
(***************************************************************************)
EXTENDS Integers, Sequences, FiniteSets, TLC

VARIABLES
    \* ---- the scheme and the dataset group (inputs) ----
    labels,              \* dataset_group.dataset_models keys, in dict order
    ds_global_axis,      \* dataset.coords[global_dimension].data per dataset
    ds_model_axis,       \* dataset.coords[model_dimension].data per dataset
    ds_dims,             \* dataset.data.dims per dataset
    ds_model_dimension,  \* dataset_model.get_model_dimension() per dataset
    ds_data,             \* dataset.data, indexed in the order of ds_dims
    ds_weight,           \* dataset.weight, indexed in the order of ds_dims, or None
    has_global_model,    \* dataset_model.has_global_model() per dataset
    model_weights,       \* scheme.model.weights
    clp_link_tolerance,  \* scheme.clp_link_tolerance
    clp_link_method,     \* scheme.clp_link_method
    \* ---- DataProvider ----
    weight,              \* self._weight
    data,                \* self._data
    flattened_data,      \* self._flattened_data
    flattened_weight,    \* self._flattened_weight
    model_axes,          \* self._model_axes
    model_dimensions,    \* self._model_dimensions
    global_axes,         \* self._global_axes
    global_dimensions,   \* self._global_dimensions
    warned,              \* datasets for which warnings.warn was called
    \* ---- DataProviderLinked ----
    aligned_axis_values, \* local of create_aligned_global_axes
    aligned_global_axes, \* result of create_aligned_global_axes
    aligned_global_axis, \* self._aligned_global_axis
    aligned_data,        \* self._aligned_data
    aligned_dataset_indices, \* self._aligned_dataset_indices
    aligned_group_labels,    \* self._aligned_group_labels
    group_definitions,       \* self._group_definitions
    aligned_weights,         \* self._aligned_weights
    \* ---- control ----
    pc,                  \* position in the constructor
    k,                   \* dataset the current loop is at
    error,               \* exception raised by the constructor, "" if none
    run,                 \* 1: first construction, 2: construction on the aligned axes
    first,               \* result of the first construction, kept for the second
    \* ---- numpy ----
    memory,              \* the array buffers and the references the objects hold to them
    \* ---- ParameterGroup ----
    groups,              \* the ParameterGroup objects, by identity (1: the root store)
    params,              \* the Parameter objects, by identity
    op,                  \* the last operation on the store and its outcome
    \* ---- simulation ----
    simulation,          \* the arguments of a simulation and its outcome
    \* ---- OptimizationGroup ----
    optimization_group   \* the model of an optimization group and what it calculated

vars == << labels, ds_global_axis, ds_model_axis, ds_dims, ds_model_dimension,
           ds_data, ds_weight,
           has_global_model, model_weights, clp_link_tolerance, clp_link_method,
           weight, data, flattened_data, flattened_weight, model_axes, model_dimensions,
           global_axes, global_dimensions, warned, aligned_axis_values, aligned_global_axes, aligned_global_axis,
           aligned_data, aligned_dataset_indices, aligned_group_labels,
           group_definitions, aligned_weights, pc, k, error, run, first, memory,
           groups, params, op, simulation, optimization_group >>

scheme == << labels, ds_global_axis, ds_model_axis, ds_dims, ds_model_dimension,
             ds_data, ds_weight, has_global_model, model_weights, clp_link_tolerance, clp_link_method >>

\* the data provider
provider == << weight, data, flattened_data, flattened_weight, model_axes, model_dimensions,
               global_axes, global_dimensions, warned, aligned_axis_values,
               aligned_global_axes, aligned_global_axis, aligned_data,
               aligned_dataset_indices, aligned_group_labels, group_definitions,
               aligned_weights, pc, k, error, run, first >>

\* the parameter store
store == << groups, params, op >>

\* the simulation and the optimization group
analysis == << simulation, optimization_group >>

-----------------------------------------------------------------------------
(* Bounds of the explored inputs *)

MaxCoord == 2        \* global-axis coordinates are drawn from 0..MaxCoord
MaxAxisLen == 3      \* a global axis has 1..MaxAxisLen points
MaxTol == 1          \* clp_link_tolerance is drawn from 0..MaxTol
MaxGroups == 3       \* a store holds at most MaxGroups ParameterGroup objects
MaxParams == 2       \* a store holds at most MaxParams Parameter objects
MaxValue == 8        \* parameter values are explored up to MaxValue

-----------------------------------------------------------------------------
(* Values and numpy helpers *)

None == << >>
NaN == << >>
Num(v) == << v >>
IsNaN(x) == x = NaN

\* numpy multiplication of two float values: NaN is absorbing
Mul(x, w) == IF IsNaN(x) THEN NaN ELSE Num(x[1] * w)

Abs(x) == IF x < 0 THEN -x ELSE x

SeqToSet(s) == { s[i] : i \in DOMAIN s }

\* numpy.ndarray.min
SeqMin(s) == CHOOSE m \in SeqToSet(s) : \A x \in SeqToSet(s) : m <= x

\* numpy.ndarray.argmin: the first position (1-based) of the minimum
ArgMin(s) == CHOOSE i \in DOMAIN s :
                 /\ s[i] = SeqMin(s)
                 /\ \A j \in DOMAIN s : j < i => s[j] # s[i]

\* the increasing sequence of the elements of a finite set of integers
RECURSIVE SortedSeq(_)
SortedSeq(S) ==
    IF S = {} THEN << >>
    ELSE LET m == CHOOSE x \in S : \A y \in S : x <= y
         IN  << m >> \o SortedSeq(S \ {m})

\* numpy.unique of a 1-d array
Unique(s) == SortedSeq(SeqToSet(s))

\* concatenation of a sequence of sequences
RECURSIVE Flatten(_)
Flatten(ss) == IF ss = << >> THEN << >> ELSE Head(ss) \o Flatten(Tail(ss))

\* position (1-based) of value v in sequence s, 0 when absent
IndexOf(s, v) == IF \E i \in DOMAIN s : s[i] = v
                 THEN CHOOSE i \in DOMAIN s : s[i] = v /\ \A j \in DOMAIN s : j < i => s[j] # v
                 ELSE 0

Datasets == DOMAIN labels
N == Len(labels)

-----------------------------------------------------------------------------
(* DataProvider *)

\* numpy.ndarray.T of a two-dimensional array
Transpose(a) == [ c \in 1..Len(a[1]) |-> [ r \in 1..Len(a) |-> a[r][c] ] ]

\* numpy.ndarray.flatten (row-major)
FlattenArray(a) == Flatten(a)

\* the weight applied twice to every element
MulArray_twice(a, w) ==
    [ m \in DOMAIN a |-> [ g \in DOMAIN a[m] |-> Mul(Mul(a[m][g], w[m][g]), w[m][g]) ] ]

\* elementwise  data *= weight
MulArray(a, w) == [ m \in DOMAIN a |-> [ g \in DOMAIN a[m] |-> Mul(a[m][g], w[m][g]) ] ]

\* DataProvider.infer_global_dimension
infer_global_dimension(model_dimension, dimensions) ==
    dimensions[CHOOSE i \in DOMAIN dimensions :
                  /\ dimensions[i] # model_dimension
                  /\ \A j \in DOMAIN dimensions : j < i => dimensions[j] = model_dimension]

\* DataProvider.get_from_dataset: stored is dataset[name].data (None when the
\* name is not in the dataset), dims is dataset[name].dims
get_from_dataset(stored, dims, model_dimension, global_dimension) ==
    IF stored = None THEN None
    ELSE IF dims # << model_dimension, global_dimension >> THEN Transpose(stored)
    ELSE stored

\* Interval bounds are extended integers <<s, v>>: s = 0 for the finite value v,
\* s = 1 for +inf and s = -1 for -inf.
Fin(v) == << 0, v >>
PosInf == << 1, 0 >>
NegInf == << -1, 0 >>
IsInf(b) == b[1] # 0
BoundGt(a, b) == \/ a[1] > b[1]
                 \/ a[1] = 0 /\ b[1] = 0 /\ a[2] > b[2]

\* np.abs(axis - bound).argmin(), 0-based
NearestIndex(axis, bound) ==
    ArgMin([ i \in DOMAIN axis |-> Abs(axis[i] - bound[2]) ]) - 1

\* DataProvider.get_axis_slice_from_interval: the slice <<start, stop>> (0-based,
\* stop exclusive)
get_axis_slice_from_interval(interval, axis) ==
    LET swap == BoundGt(interval[1], interval[2])
        interval_min == IF swap THEN interval[2] ELSE interval[1]
        interval_max == IF swap THEN interval[1] ELSE interval[2]
        minimum == IF IsInf(interval_min) THEN 0 ELSE NearestIndex(axis, interval_min)
        maximum == IF IsInf(interval_max) THEN Len(axis) - 1
                   ELSE NearestIndex(axis, interval_max) + 1
    IN  << minimum, maximum >>

\* positions (1-based) a python slice selects on an axis of the given size
SlicePositions(sl, size) == { i \in 1..size : sl[1] <= i - 1 /\ i - 1 < sl[2] }

\* bool(x) of self._weight[dataset_label]: "false", "true", or "raise" (numpy
\* refuses the truth value of an array with more than one element)
Truth(w) ==
    IF w = None THEN "false"
    ELSE IF Len(w) * Len(w[1]) > 1 THEN "raise"
    ELSE IF w[1][1] # 0 THEN "true" ELSE "false"

\* weight[idx] *= model_weight.value  for one model weight
ApplyModelWeight(w, model_weight, model_axis, global_axis) ==
    LET gsel == IF model_weight.global_interval # None
                THEN SlicePositions(
                        get_axis_slice_from_interval(model_weight.global_interval, global_axis),
                        Len(global_axis))
                ELSE DOMAIN global_axis
        msel == IF model_weight.model_interval # None
                THEN SlicePositions(
                        get_axis_slice_from_interval(model_weight.model_interval, model_axis),
                        Len(model_axis))
                ELSE DOMAIN model_axis
    IN  [ m \in DOMAIN w |-> [ g \in DOMAIN w[m] |->
            IF m \in msel /\ g \in gsel THEN w[m][g] * model_weight.value ELSE w[m][g] ] ]

RECURSIVE ApplyModelWeights(_, _, _, _)
ApplyModelWeights(w, mws, model_axis, global_axis) ==
    IF mws = << >> THEN w
    ELSE ApplyModelWeights(ApplyModelWeight(w, Head(mws), model_axis, global_axis),
                           Tail(mws), model_axis, global_axis)

\* DataProvider.add_model_weight: the outcome for a dataset whose self._weight
\* is w: [raised, warn, weight]
add_model_weight(w, label, model_axis, global_axis) ==
    LET mws == SelectSeq(model_weights, LAMBDA mw : label \in mw.datasets)
        ones == [ m \in DOMAIN model_axis |-> [ g \in DOMAIN global_axis |-> 1 ] ]
    IN  IF mws = << >> THEN [ raised |-> "", warn |-> FALSE, weight |-> w ]
        ELSE IF Truth(w) = "raise"
             THEN [ raised |-> "ValueError", warn |-> FALSE, weight |-> w ]
        ELSE IF Truth(w) = "true"
             THEN [ raised |-> "", warn |-> TRUE, weight |-> w ]
        ELSE [ raised |-> "", warn |-> FALSE,
               weight |-> ApplyModelWeights(ones, mws, model_axis, global_axis) ]

\* DataProvider.__init__, the loop body for dataset k
InitDataset ==
    /\ pc = "init"
    /\ LET label == labels[k]
           model_dimension == ds_model_dimension[k]
           global_dimension == infer_global_dimension(model_dimension, ds_dims[k])
           w0 == get_from_dataset(ds_weight[k], ds_dims[k], model_dimension, global_dimension)
           amw == add_model_weight(w0, label, ds_model_axis[k], ds_global_axis[k])
           d0 == get_from_dataset(ds_data[k], ds_dims[k], model_dimension, global_dimension)
           d1 == IF amw.weight # None THEN MulArray(d0, amw.weight) ELSE d0
       IN  /\ model_axes' = Append(model_axes, ds_model_axis[k])
           /\ model_dimensions' = Append(model_dimensions, model_dimension)
           /\ global_axes' = Append(global_axes, ds_global_axis[k])
           /\ global_dimensions' = Append(global_dimensions, global_dimension)
           /\ weight' = Append(weight, amw.weight)
           /\ warned' = IF amw.warn THEN warned \cup {k} ELSE warned
           /\ IF amw.raised # ""
              THEN /\ pc' = "error"
                   /\ error' = amw.raised
                   /\ UNCHANGED << data, flattened_data, flattened_weight, k >>
              ELSE /\ data' = Append(data, d1)
                   /\ IF has_global_model[k]
                      THEN /\ flattened_data' =
                                flattened_data @@ (k :> FlattenArray(Transpose(d1)))
                           /\ flattened_weight' =
                                flattened_weight @@
                                (k :> IF amw.weight # None
                                      THEN FlattenArray(Transpose(amw.weight))
                                      ELSE None)
                      ELSE UNCHANGED << flattened_data, flattened_weight >>
                   /\ error' = error
                   /\ IF k = N THEN pc' = "align_axes" /\ k' = 1
                               ELSE pc' = pc /\ k' = k + 1
    /\ UNCHANGED << memory, scheme, store, analysis, aligned_axis_values, aligned_global_axes, aligned_global_axis,
                    aligned_data, aligned_dataset_indices, aligned_group_labels,
                    group_definitions, aligned_weights, run, first >>

-----------------------------------------------------------------------------
(* DataProviderLinked *)

\* align_index with the tolerance compared strictly (diff.min() < tolerance)
align_index_strict(index, target_axis, tolerance, method) ==
    LET diff0 == [ i \in DOMAIN target_axis |-> target_axis[i] - index ]
        diff1 == IF method = "forward" THEN SelectSeq(diff0, LAMBDA x : x >= 0)
                 ELSE IF method = "backward" THEN SelectSeq(diff0, LAMBDA x : x <= 0)
                 ELSE diff0
        diff == [ i \in DOMAIN diff1 |-> Abs(diff1[i]) ]
    IN  IF Len(diff) > 0 /\ SeqMin(diff) < tolerance
        THEN target_axis[ArgMin(diff)]
        ELSE index

\* DataProviderLinked.align_index
align_index(index, target_axis, tolerance, method) ==
    LET diff0 == [ i \in DOMAIN target_axis |-> target_axis[i] - index ]
        diff1 == IF method = "forward" THEN SelectSeq(diff0, LAMBDA x : x >= 0)
                 ELSE IF method = "backward" THEN SelectSeq(diff0, LAMBDA x : x <= 0)
                 ELSE diff0
        diff == [ i \in DOMAIN diff1 |-> Abs(diff1[i]) ]
    IN  IF Len(diff) > 0 /\ SeqMin(diff) <= tolerance
        THEN target_axis[ArgMin(diff)]
        ELSE index

\* the ambiguity test with the comparison turned (never true)
IsAmbiguous_gt(aligned_axis) == Len(Unique(aligned_axis)) > Len(aligned_axis)

\* the ambiguity test of create_aligned_global_axes
IsAmbiguous(aligned_axis) == Len(Unique(aligned_axis)) # Len(aligned_axis)

\* the axis of one dataset aligned on the values collected so far
AlignAxis(global_axis, axis_values, tolerance, method) ==
    IF axis_values = None THEN global_axis
    ELSE [ j \in DOMAIN global_axis |->
             align_index(global_axis[j], axis_values, tolerance, method) ]

\* the values collected after a dataset has been aligned
MergeAxisValues(axis_values, aligned_axis) ==
    IF axis_values = None THEN aligned_axis
    ELSE Unique(axis_values \o aligned_axis)

\* DataProviderLinked.create_aligned_global_axes, the loop body for dataset k
CreateAlignedGlobalAxes ==
    /\ pc = "align_axes"
    /\ LET aligned == AlignAxis(global_axes[k], aligned_axis_values,
                                clp_link_tolerance, clp_link_method)
       IN  IF aligned_axis_values # None /\ IsAmbiguous(aligned)
           THEN /\ pc' = "error"
                /\ error' = "AlignDatasetError"
                /\ UNCHANGED << aligned_axis_values, aligned_global_axes, k >>
           ELSE /\ aligned_axis_values' = MergeAxisValues(aligned_axis_values, aligned)
                /\ aligned_global_axes' = Append(aligned_global_axes, aligned)
                /\ error' = error
                /\ IF k = N THEN pc' = "align_data" /\ k' = 1
                            ELSE pc' = pc /\ k' = k + 1
    /\ UNCHANGED << memory, scheme, store, analysis, weight, data, flattened_data, flattened_weight, model_axes,
                    model_dimensions, global_axes, global_dimensions, warned,
                    aligned_global_axis, aligned_data, aligned_dataset_indices,
                    aligned_group_labels, group_definitions, aligned_weights, run, first >>

\* a join that keeps the order of appearance instead of sorting the union
RECURSIVE OuterJoin_unsorted(_)
OuterJoin_unsorted(axes) ==
    IF axes = << >> THEN << >>
    ELSE LET before == OuterJoin_unsorted(SubSeq(axes, 1, Len(axes) - 1))
         IN  before \o SelectSeq(axes[Len(axes)], LAMBDA c : c \notin SeqToSet(before))

\* the "global" index xarray.concat gives the concatenated array (join="outer"):
\* the first index when all indexes are equal, else their sorted union
OuterJoin(axes) ==
    IF \A d \in DOMAIN axes : axes[d] = axes[1] THEN axes[1]
    ELSE SortedSeq(UNION { SeqToSet(axes[d]) : d \in DOMAIN axes })

\* dropna: the entries that are not NaN
DropNa(s) == SelectSeq(s, LAMBDA x : ~IsNaN(x))

\* the column of dataset d at shared coordinate c after reindexing on the shared
\* axis: NaN-filled when the dataset has no such coordinate
ReindexedColumn(axes, d, c) ==
    LET j == IndexOf(axes[d], c)
    IN  [ m \in DOMAIN data[d] |-> IF j = 0 THEN NaN ELSE data[d][m][j] ]

\* DataProviderLinked.align_data: <<aligned global axis, aligned data>>
align_data(axes) ==
    LET axis == OuterJoin(axes)
    IN  << axis,
           [ i \in DOMAIN axis |->
               DropNa(Flatten([ d \in DOMAIN axes |-> ReindexedColumn(axes, d, axis[i]) ])) ] >>

\* DataProviderLinked.align_dataset_indices (0-based local indices)
align_dataset_indices(axes) ==
    [ i \in DOMAIN aligned_global_axis |->
        Flatten([ d \in DOMAIN axes |->
                    LET j == IndexOf(axes[d], aligned_global_axis[i])
                    IN  IF j = 0 THEN << >> ELSE << j - 1 >> ]) ]

\* str.join of a sequence of strings with separator ""
RECURSIVE StrJoin(_)
StrJoin(ss) == IF ss = << >> THEN "" ELSE Head(ss) \o StrJoin(Tail(ss))

\* the concatenated label array of align_groups at shared position i: the label
\* of each dataset that has the coordinate, "" for the others
GroupColumn(axes, axis, i) ==
    [ d \in DOMAIN axes |-> IF IndexOf(axes[d], axis[i]) = 0 THEN "" ELSE labels[d] ]

\* DataProviderLinked.align_groups: <<aligned group labels, group definitions>>
align_groups(axes) ==
    LET axis == OuterJoin(axes)
        group_labels == [ i \in DOMAIN axis |-> StrJoin(GroupColumn(axes, axis, i)) ]
        FirstAt(gl) == CHOOSE i \in DOMAIN axis :
                          /\ group_labels[i] = gl
                          /\ \A j \in DOMAIN axis : j < i => group_labels[j] # gl
    IN  << group_labels,
           [ gl \in SeqToSet(group_labels) |->
               SelectSeq(GroupColumn(axes, axis, FirstAt(gl)), LAMBDA l : l # "") ] >>

\* dataset position of a label
DatasetOf(label) == CHOOSE d \in Datasets : labels[d] = label

\* the weight vector of align_weights at shared position i: [raised, weights]
IndexWeights(axes, i) ==
    LET group_dataset_labels == group_definitions[aligned_group_labels[i]]
        missing == { n \in DOMAIN group_dataset_labels :
                       LET d == DatasetOf(group_dataset_labels[n])
                       IN  /\ weight[d] # None
                           /\ IndexOf(axes[d], aligned_global_axis[i]) = 0 }
        part(n) == LET d == DatasetOf(group_dataset_labels[n])
                       j == IndexOf(axes[d], aligned_global_axis[i])
                   IN  IF weight[d] # None
                       THEN [ m \in DOMAIN weight[d] |-> weight[d][m][j] ]
                       ELSE [ m \in DOMAIN model_axes[d] |-> 1 ]
    IN  IF \A n \in DOMAIN group_dataset_labels :
               weight[DatasetOf(group_dataset_labels[n])] = None
        THEN [ raised |-> "", weights |-> None ]
        ELSE IF missing # {} THEN [ raised |-> "KeyError", weights |-> None ]
        ELSE [ raised |-> "",
               weights |-> Flatten([ n \in DOMAIN group_dataset_labels |-> part(n) ]) ]

\* DataProviderLinked.align_weights: [raised, weights]
align_weights(axes) ==
    LET per_index == [ i \in DOMAIN aligned_global_axis |-> IndexWeights(axes, i) ]
    IN  IF \E i \in DOMAIN per_index : per_index[i].raised # ""
        THEN [ raised |-> "KeyError", weights |-> << >> ]
        ELSE [ raised |-> "", weights |-> [ i \in DOMAIN per_index |-> per_index[i].weights ] ]

\* DataProviderLinked.__init__: self._aligned_global_axis, self._aligned_data
AlignData ==
    /\ pc = "align_data"
    /\ aligned_global_axis' = align_data(aligned_global_axes)[1]
    /\ aligned_data' = align_data(aligned_global_axes)[2]
    /\ pc' = "align_indices"
    /\ UNCHANGED << memory, scheme, store, analysis, weight, data, flattened_data, flattened_weight, model_axes,
                    model_dimensions, global_axes, global_dimensions, warned,
                    aligned_axis_values, aligned_global_axes, aligned_dataset_indices,
                    aligned_group_labels, group_definitions, aligned_weights,
                    k, error, run, first >>

\* DataProviderLinked.__init__: self._aligned_dataset_indices
AlignDatasetIndices ==
    /\ pc = "align_indices"
    /\ aligned_dataset_indices' = align_dataset_indices(aligned_global_axes)
    /\ pc' = "align_groups"
    /\ UNCHANGED << memory, scheme, store, analysis, weight, data, flattened_data, flattened_weight, model_axes,
                    model_dimensions, global_axes, global_dimensions, warned,
                    aligned_axis_values, aligned_global_axes, aligned_global_axis,
                    aligned_data, aligned_group_labels, group_definitions,
                    aligned_weights, k, error, run, first >>

\* DataProviderLinked.__init__: self._aligned_group_labels, self._group_definitions
AlignGroups ==
    /\ pc = "align_groups"
    /\ aligned_group_labels' = align_groups(aligned_global_axes)[1]
    /\ group_definitions' = align_groups(aligned_global_axes)[2]
    /\ pc' = "align_weights"
    /\ UNCHANGED << memory, scheme, store, analysis, weight, data, flattened_data, flattened_weight, model_axes,
                    model_dimensions, global_axes, global_dimensions, warned,
                    aligned_axis_values, aligned_global_axes, aligned_global_axis,
                    aligned_data, aligned_dataset_indices, aligned_weights,
                    k, error, run, first >>

\* DataProviderLinked.__init__: self._aligned_weights
AlignWeights ==
    /\ pc = "align_weights"
    /\ LET aw == align_weights(aligned_global_axes)
       IN  IF aw.raised # ""
           THEN /\ pc' = "error"
                /\ error' = aw.raised
                /\ UNCHANGED aligned_weights
           ELSE /\ pc' = "done"
                /\ error' = error
                /\ aligned_weights' = aw.weights
    /\ UNCHANGED << memory, scheme, store, analysis, weight, data, flattened_data, flattened_weight, model_axes,
                    model_dimensions, global_axes, global_dimensions, warned,
                    aligned_axis_values, aligned_global_axes, aligned_global_axis,
                    aligned_data, aligned_dataset_indices, aligned_group_labels,
                    group_definitions, k, run, first >>

\* A second provider is constructed for the same datasets with their global
\* axes replaced by the aligned axes of the first: create_aligned_global_axes
\* and the align steps run again on already aligned axes.
Realign ==
    /\ pc = "done"
    /\ run = 1
    /\ first' = [ aligned_global_axes |-> aligned_global_axes,
                  aligned_axis_values |-> aligned_axis_values,
                  aligned_global_axis |-> aligned_global_axis ]
    /\ global_axes' = aligned_global_axes
    /\ aligned_axis_values' = None
    /\ aligned_global_axes' = << >>
    /\ aligned_global_axis' = << >>
    /\ aligned_data' = << >>
    /\ aligned_dataset_indices' = << >>
    /\ aligned_group_labels' = << >>
    /\ group_definitions' = << >>
    /\ aligned_weights' = << >>
    /\ pc' = "align_axes"
    /\ k' = 1
    /\ run' = 2
    /\ UNCHANGED << memory, scheme, store, analysis, weight, data, flattened_data, flattened_weight, model_axes,
                    model_dimensions, global_dimensions, warned, error >>

-----------------------------------------------------------------------------
(* Inputs *)

\* the axes with len points out of 0..MaxCoord, no value twice, in any order
RECURSIVE InjectiveSeqs(_, _)
InjectiveSeqs(used, len) ==
    IF len = 0 THEN { << >> }
    ELSE UNION { { << c >> \o s : s \in InjectiveSeqs(used \cup {c}, len - 1) } :
                 c \in (0..MaxCoord) \ used }

IsIncreasing(s) == \A i, j \in DOMAIN s : i < j => s[i] < s[j]

\* a global axis: 1..maxlen distinct coordinates in any order
Axes(maxlen) == UNION { InjectiveSeqs({}, len) : len \in 1..maxlen }

\* an increasing global axis
IncreasingAxes(maxlen) == { s \in Axes(maxlen) : IsIncreasing(s) }

Methods == { "nearest", "backward", "forward" }

\* the data of dataset d as (model, global): every cell has its own value, the
\* cells in nans are NaN
CellValue(d, m, g) == 100 * d + 10 * m + g

DataArray(d, model_axis, global_axis, nans) ==
    [ m \in DOMAIN model_axis |-> [ g \in DOMAIN global_axis |->
        IF << d, m, g >> \in nans THEN NaN ELSE Num(CellValue(d, m, g)) ] ]

\* an embedded weight: None, or an array filled with the value wk[1]
WeightArray(wk, model_axis, global_axis) ==
    IF wk = None THEN None
    ELSE [ m \in DOMAIN model_axis |-> [ g \in DOMAIN global_axis |-> wk[1] ] ]

\* the array as the dataset stores it
Stored(a, dims, model_dimension) ==
    IF a = None THEN None
    ELSE IF dims[1] = model_dimension THEN a ELSE Transpose(a)

InitProvider ==
    /\ weight = << >>
    /\ data = << >>
    /\ flattened_data = << >>
    /\ flattened_weight = << >>
    /\ model_axes = << >>
    /\ model_dimensions = << >>
    /\ global_axes = << >>
    /\ global_dimensions = << >>
    /\ warned = {}
    /\ aligned_axis_values = None
    /\ aligned_global_axes = << >>
    /\ aligned_global_axis = << >>
    /\ aligned_data = << >>
    /\ aligned_dataset_indices = << >>
    /\ aligned_group_labels = << >>
    /\ group_definitions = << >>
    /\ aligned_weights = << >>
    /\ pc = "init"
    /\ k = 1
    /\ error = ""
    /\ run = 1
    /\ first = << >>

\* no parameter store is built
NoStore ==
    /\ groups = << >>
    /\ params = << >>
    /\ op = << >>

\* nothing is simulated or calculated
NoAnalysis ==
    /\ simulation = << >>
    /\ optimization_group = << >>

\* the model axis of the dataset at position d: one point for the odd
\* positions, two points for the even ones
ModelAxisAt(d) == IF d % 2 = 1 THEN << 0 >> ELSE << 0, 1 >>

\* a reference to a numpy array: the buffer it reads and writes (by identity,
\* 0 for None) and whether it is the transposed view of the buffer
Ref(buffer, T) == [ buffer |-> buffer, T |-> T ]

NoRef == Ref(0, FALSE)

\* the buffers are not followed
NoMemory ==
    [ arrays |-> << >>, dataset |-> << >>, _weight |-> << >>, _data |-> << >>,
      _flattened_data |-> << >>, _flattened_weight |-> << >>, error |-> "" ]

\* the scheme and the provider before construction, the inputs drawn from the
\* sets of the record c; the axes and the embedded weights of a dataset depend
\* on its position d
InitInputs(c) ==
    /\ labels \in c.labels
    /\ ds_global_axis \in { f \in [DOMAIN labels -> Axes(MaxAxisLen)] :
                              \A d \in DOMAIN labels : f[d] \in c.axes[d] }
    /\ ds_model_axis = [ d \in DOMAIN labels |-> ModelAxisAt(d) ]
    /\ ds_dims \in [DOMAIN labels -> c.dims]
    /\ ds_model_dimension = [ d \in DOMAIN labels |-> "time" ]
    /\ \E nans \in c.nans :
          ds_data = [ d \in DOMAIN labels |->
                        Stored(DataArray(d, ds_model_axis[d], ds_global_axis[d], nans),
                               ds_dims[d], "time") ]
    /\ \E wk \in { f \in [DOMAIN labels -> UNION { c.weights[d] : d \in DOMAIN labels }] :
                      \A d \in DOMAIN labels : f[d] \in c.weights[d] } :
          ds_weight = [ d \in DOMAIN labels |->
                          Stored(WeightArray(wk[d], ds_model_axis[d], ds_global_axis[d]),
                                 ds_dims[d], "time") ]
    /\ has_global_model \in [DOMAIN labels -> c.global_model]
    /\ model_weights \in c.model_weights
    /\ clp_link_tolerance \in c.tolerances
    /\ clp_link_method \in c.methods
    /\ InitProvider
    /\ NoStore
    /\ NoAnalysis

\* the state before construction
InitWith(c) ==
    /\ InitInputs(c)
    /\ memory = NoMemory

NoWeight(d) == { None }

\* the axes explored for the dataset at position d: any order of the values for
\* the first dataset, increasing axes for the second, one point for the others
AlignAxes(d) == IF d = 1 THEN Axes(MaxAxisLen)
                ELSE IF d = 2 THEN IncreasingAxes(MaxAxisLen)
                ELSE IncreasingAxes(1)

\* alignment: one to three datasets, every tolerance and method; no weights
InitAlign ==
    InitWith([ labels |-> { << "a" >>, << "a", "b" >>, << "a", "b", "c" >> },
               axes |-> [ d \in Nat |-> AlignAxes(d) ],
               dims |-> { << "time", "spectral" >> },
               nans |-> { {} },
               weights |-> [ d \in Nat |-> NoWeight(d) ],
               model_weights |-> { << >> },
               tolerances |-> 0..MaxTol,
               methods |-> Methods,
               global_model |-> { FALSE } ])

\* the axes explored for the groups: increasing, one point for the third dataset
GroupAxes(d) == IF d <= 2 THEN IncreasingAxes(MaxAxisLen - 1) ELSE IncreasingAxes(1)

\* embedded weights of the first two datasets: none, or an array of twos
GroupWeights(d) == IF d <= 2 THEN { None, << 2 >> } ELSE { None }

\* groups: three datasets under two labellings, a NaN in the data or none,
\* embedded weights or none, method "nearest"
InitGroup ==
    InitWith([ labels |-> { << "a", "b", "c" >>, << "a", "ab", "b" >> },
               axes |-> [ d \in Nat |-> GroupAxes(d) ],
               dims |-> { << "time", "spectral" >> },
               nans |-> { {}, { << 1, 1, 1 >> } },
               weights |-> [ d \in Nat |-> GroupWeights(d) ],
               model_weights |-> { << >> },
               tolerances |-> 0..MaxTol,
               methods |-> { "nearest" },
               global_model |-> { FALSE } ])

\* embedded weights: none, an array of zeros, an array of twos
AnyWeight(d) == { None, << 0 >>, << 2 >> }

\* a model weight for the datasets in ds, on the whole of both axes
WholeWeight(ds, value) ==
    [ datasets |-> ds, global_interval |-> None, model_interval |-> None, value |-> value ]

\* the axes explored for the weights: increasing, one point for the second dataset
WeightAxes(d) == IF d = 1 THEN IncreasingAxes(MaxAxisLen - 1) ELSE IncreasingAxes(1)

\* weights: one or two datasets with or without embedded weight, with or
\* without model weights naming them
InitWeight ==
    InitWith([ labels |-> { << "a" >>, << "a", "b" >> },
               axes |-> [ d \in Nat |-> WeightAxes(d) ],
               dims |-> { << "time", "spectral" >>, << "spectral", "time" >> },
               nans |-> { {} },
               weights |-> [ d \in Nat |-> AnyWeight(d) ],
               model_weights |-> { << >>, << WholeWeight({ "a" }, 3) >>,
                                   << WholeWeight({ "a", "b" }, 3), WholeWeight({ "b" }, 5) >> },
               tolerances |-> { 0 },
               methods |-> { "nearest" },
               global_model |-> BOOLEAN ])

\* the bounds of the intervals explored: the coordinates and both infinities
IntervalBounds == { NegInf, PosInf } \cup { Fin(v) : v \in 0..MaxCoord }

\* the intervals of a model weight on the global axis, in either order of the bounds
GlobalIntervals == { None } \cup (IntervalBounds \X IntervalBounds)

\* the intervals of a model weight on the model axis
ModelIntervals == { None, << Fin(0), Fin(0) >>, << Fin(1), Fin(1) >>,
                    << Fin(1), Fin(0) >>, << Fin(0), PosInf >> }

\* a model weight for the datasets in ds on the given intervals
IntervalWeight(ds, global_interval, model_interval, value) ==
    [ datasets |-> ds, global_interval |-> global_interval,
      model_interval |-> model_interval, value |-> value ]

\* the axes explored for the intervals: increasing, one point for the second dataset
IntervalAxes(d) == IF d = 1 THEN IncreasingAxes(MaxAxisLen) ELSE IncreasingAxes(1)

\* intervals: two datasets without embedded weight and one model weight that
\* lists one of them, on any interval of either axis
InitInterval ==
    InitWith([ labels |-> { << "a", "b" >> },
               axes |-> [ d \in Nat |-> IntervalAxes(d) ],
               dims |-> { << "time", "spectral" >> },
               nans |-> { {} },
               weights |-> [ d \in Nat |-> NoWeight(d) ],
               model_weights |-> { << IntervalWeight({ l }, gi, mi, 3) >> :
                                     << l, gi, mi >> \in
                                       { "a", "b" } \X GlobalIntervals \X ModelIntervals },
               tolerances |-> { 0 },
               methods |-> { "nearest" },
               global_model |-> { FALSE } ])

Next ==
    \/ InitDataset
    \/ CreateAlignedGlobalAxes
    \/ AlignData
    \/ AlignDatasetIndices
    \/ AlignGroups
    \/ AlignWeights
    \/ Realign

SpecAlign == InitAlign /\ [][Next]_vars

SpecGroup == InitGroup /\ [][Next]_vars

SpecWeight == InitWeight /\ [][Next]_vars

SpecInterval == InitInterval /\ [][Next]_vars

-----------------------------------------------------------------------------
(* ParameterGroup (src/glotaran/parameter/parameter_group.py)              *)
(*                                                                         *)
(* The ParameterGroup and Parameter objects live in two sequences, groups  *)
(* and params; an object is identified by its position.  A label is a      *)
(* string, "" standing for None.  A dotted label is kept as the sequence   *)
(* of its segments (segments are valid labels and hold no dot, so that     *)
(* split(".") and ".".join are inverse to each other on them).  A dict is  *)
(* the sequence of its <<key, value>> pairs in insertion order.            *)

NoLabel == ""
NoGroup == 0

\* key in dict
DictHas(dict, key) == \E i \in DOMAIN dict : dict[i][1] = key

\* dict[key]
DictGet(dict, key) == dict[CHOOSE i \in DOMAIN dict : dict[i][1] = key][2]

\* dict[key] = value: a known key keeps its place, a new key comes last
DictSet(dict, key, value) ==
    IF DictHas(dict, key)
    THEN [ i \in DOMAIN dict |-> IF dict[i][1] = key THEN << key, value >> ELSE dict[i] ]
    ELSE Append(dict, << key, value >>)

\* the expression of a parameter: none, a number, "$ref + plus", or "None"
NoExpression == [ kind |-> "null", ref |-> << >>, plus |-> 0 ]
ConstExpression(v) == [ kind |-> "const", ref |-> << >>, plus |-> v ]
RefExpression(ref, plus) == [ kind |-> "ref", ref |-> ref, plus |-> plus ]
NoneExpression == [ kind |-> "none", ref |-> << >>, plus |-> 0 ]

\* Parameter(label, value, expression, vary, minimum, maximum): a new
\* Parameter object (non_negative is False)
Parameter(label, value, expression, vary, minimum, maximum) ==
    [ label |-> label, full_label |-> << >>, value |-> value, expression |-> expression,
      vary |-> vary, minimum |-> minimum, maximum |-> maximum, index |-> 0 ]

\* Parameter.get_value_and_bounds_for_optimization of a parameter that is
\* not non_negative
get_value_and_bounds_for_optimization(p) == << p.value, p.minimum, p.maximum >>

\* Parameter.set_value_from_optimization of a parameter that is not
\* non_negative
set_value_from_optimization(p, value) == [ p EXCEPT !.value = value ]

\* Parameter.vary: a parameter with an expression does not vary
Vary(p) == IF p.expression # NoExpression THEN FALSE ELSE p.vary

\* ParameterGroup.__init__: a group with an evaluator of its own when it has
\* no root group
ParameterGroup(label, root_group) ==
    [ label |-> label, root_group |-> root_group, parameters |-> << >>, items |-> << >>,
      evaluator |-> root_group = NoGroup ]

\* ParameterGroup.add_parameter for one new Parameter object p: the object
\* store after the call
add_parameter(G, P, g, p) ==
    LET index == Len(G[g].parameters) + 1
        label == IF p.label = NoLabel THEN ToString(index) ELSE p.label
        full_label == IF G[g].label # NoLabel THEN << G[g].label, label >> ELSE << label >>
        pid == Len(P) + 1
    IN  [ groups |-> [ G EXCEPT ![g].parameters = DictSet(@, label, pid) ],
          params |-> Append(P, [ p EXCEPT !.index = index, !.label = label,
                                          !.full_label = full_label ]) ]

\* ParameterGroup.add_group for a new group ParameterGroup(label, root_group)
add_group(G, g, label, root_group) ==
    LET gid == Len(G) + 1
    IN  [ Append(G, ParameterGroup(label, root_group)) EXCEPT ![g].items = DictSet(@, label, gid) ]

\* ParameterGroup.get_group_for_parameter_by_label: [groups, raised, result]
RECURSIVE get_group_for_parameter_by_label(_, _, _, _)
get_group_for_parameter_by_label(G, g, path, create_if_not_exist) ==
    IF Len(path) <= 1 THEN [ groups |-> G, raised |-> "", result |-> g ]
    ELSE LET group_label == Head(path)
         IN  IF ~DictHas(G[g].items, group_label)
             THEN IF create_if_not_exist
                  THEN get_group_for_parameter_by_label(
                           add_group(G, g, group_label, g), Len(G) + 1, Tail(path),
                           create_if_not_exist)
                  ELSE [ groups |-> G, raised |-> "KeyError", result |-> NoGroup ]
             ELSE get_group_for_parameter_by_label(
                      G, DictGet(G[g].items, group_label), Tail(path), create_if_not_exist)

\* the group the elements of path lead to from g, NoGroup when one is absent
RECURSIVE Descend(_, _, _)
Descend(G, g, path) ==
    IF path = << >> THEN g
    ELSE IF ~DictHas(G[g].items, Head(path)) THEN NoGroup
    ELSE Descend(G, DictGet(G[g].items, Head(path)), Tail(path))

\* get that looks the last segment up in the group itself, whatever the path
get_in_self(G, P, g, full_label) ==
    LET label == full_label[Len(full_label)]
    IN  IF ~DictHas(G[g].parameters, label)
        THEN [ params |-> P, raised |-> "ParameterNotFoundException", result |-> 0 ]
        ELSE LET pid == DictGet(G[g].parameters, label)
             IN  [ params |-> [ P EXCEPT ![pid].full_label = full_label ],
                   raised |-> "", result |-> pid ]

\* ParameterGroup.get: [params, raised, result]; the parameter found gets the
\* label asked for as its full_label
get(G, P, g, full_label) ==
    LET path == SubSeq(full_label, 1, Len(full_label) - 1)
        label == full_label[Len(full_label)]
        group == Descend(G, g, path)
    IN  IF group = NoGroup \/ ~DictHas(G[group].parameters, label)
        THEN [ params |-> P, raised |-> "ParameterNotFoundException", result |-> 0 ]
        ELSE LET pid == DictGet(G[group].parameters, label)
             IN  [ params |-> [ P EXCEPT ![pid].full_label = full_label ],
                   raised |-> "", result |-> pid ]

\* ParameterGroup.has
has(G, P, g, full_label) == get(G, P, g, full_label).raised = ""

\* all that yields the parameters of the subgroups before the group's own
RECURSIVE all_subgroups_first(_, _, _, _)
all_subgroups_first(G, g, root, top) ==
    LET prefix == IF top THEN << >> ELSE root \o << G[g].label >>
    IN  Flatten([ i \in DOMAIN G[g].items |->
                    all_subgroups_first(G, G[g].items[i][2], prefix, FALSE) ])
        \o [ i \in DOMAIN G[g].parameters |->
               << prefix \o << G[g].parameters[i][1] >>, G[g].parameters[i][2] >> ]

\* ParameterGroup.all: the <<label, parameter>> pairs in the order they are
\* yielded; root is the prefix of the labels, top tells the outermost call
\* (root is None)
RECURSIVE all(_, _, _, _)
all(G, g, root, top) ==
    LET prefix == IF top THEN << >> ELSE root \o << G[g].label >>
    IN  [ i \in DOMAIN G[g].parameters |->
            << prefix \o << G[g].parameters[i][1] >>, G[g].parameters[i][2] >> ]
        \o Flatten([ i \in DOMAIN G[g].items |-> all(G, G[g].items[i][2], prefix, FALSE) ])

\* the parameters after the pairs have been yielded: each has been given its
\* label as full_label
Yielded(P, pairs) ==
    [ pid \in DOMAIN P |->
        IF \E i \in DOMAIN pairs : pairs[i][2] = pid
        THEN [ P[pid] EXCEPT !.full_label =
                 pairs[CHOOSE i \in DOMAIN pairs :
                         /\ pairs[i][2] = pid
                         /\ \A j \in DOMAIN pairs : j > i => pairs[j][2] # pid][1] ]
        ELSE P[pid] ]

\* ParameterGroup.copy: [groups, params, result]; every group and parameter
\* below g is copied into a new object, a copied group keeps the root_group of
\* its original
\* a copy that holds the Parameter objects and the subgroups of the original
copy_same_objects(G, P, g) ==
    [ groups |-> Append(G, [ ParameterGroup(G[g].label, G[g].root_group) EXCEPT
                               !.parameters = G[g].parameters, !.items = G[g].items ]),
      params |-> P, result |-> Len(G) + 1 ]

RECURSIVE copy(_, _, _), CopyItems(_, _, _, _, _)
copy(G, P, g) ==
    LET root == Len(G) + 1
        n == Len(P)
        G1 == Append(G, [ ParameterGroup(G[g].label, G[g].root_group) EXCEPT
                            !.parameters = [ i \in DOMAIN G[g].parameters |->
                                               << G[g].parameters[i][1], n + i >> ] ])
        P1 == P \o [ i \in DOMAIN G[g].parameters |-> P[G[g].parameters[i][2]] ]
        done == CopyItems(G1, P1, root, G[g].items, 1)
    IN  [ groups |-> done.groups, params |-> done.params, result |-> root ]

\* the loop of copy over the subgroups, from the i-th on
CopyItems(G, P, root, items, i) ==
    IF i > Len(items) THEN [ groups |-> G, params |-> P ]
    ELSE LET c == copy(G, P, items[i][2])
         IN  CopyItems([ c.groups EXCEPT ![root].items = DictSet(@, items[i][1], c.result) ],
                       c.params, root, items, i + 1)

\* a value that is no number (the None of an evaluation)
NoNumber == << 0, 0 >>

\* the value of the transformed expression in the evaluator of group g:
\* [params, value, number]; the value is NoNumber when it is no number (asteval gives None
\* for the literal None and for an expression that raises); group.get gives
\* the parameter it finds the label asked for as full_label
Evaluate(G, P, g, expression) ==
    IF expression.kind = "const" THEN [ params |-> P, value |-> Num(expression.plus), number |-> TRUE ]
    ELSE IF expression.kind = "none" THEN [ params |-> P, value |-> NoNumber, number |-> FALSE ]
    ELSE LET found == get(G, P, g, expression.ref)
         IN  IF found.raised # "" THEN [ params |-> P, value |-> NoNumber, number |-> FALSE ]
             ELSE [ params |-> found.params,
                    value |-> IF IsNaN(P[found.result].value) THEN NaN
                              ELSE Num(P[found.result].value[1] + expression.plus),
                    number |-> TRUE ]

\* the loop of update_parameter_expression with the value stored before it is
\* tested
RECURSIVE UpdateFrom_store_first(_, _, _, _, _)
UpdateFrom_store_first(G, P, g, pairs, i) ==
    IF i > Len(pairs) THEN [ params |-> P, raised |-> "" ]
    ELSE LET label == pairs[i][1]
             pid == pairs[i][2]
             P1 == [ P EXCEPT ![pid].full_label = label ]
         IN  IF P1[pid].expression = NoExpression
             THEN UpdateFrom_store_first(G, P1, g, pairs, i + 1)
             ELSE IF ~G[g].evaluator THEN [ params |-> P1, raised |-> "TypeError" ]
             ELSE LET ev == Evaluate(G, P1, g, P1[pid].expression)
                      P2 == [ ev.params EXCEPT ![pid].value = ev.value ]
                  IN  IF ~ev.number THEN [ params |-> P2, raised |-> "ValueError" ]
                      ELSE UpdateFrom_store_first(G, P2, g, pairs, i + 1)

\* ParameterGroup.update_parameter_expression, the loop from the i-th pair of
\* self.all() on: [params, raised]
RECURSIVE UpdateFrom(_, _, _, _, _)
UpdateFrom(G, P, g, pairs, i) ==
    IF i > Len(pairs) THEN [ params |-> P, raised |-> "" ]
    ELSE LET label == pairs[i][1]
             pid == pairs[i][2]
             P1 == [ P EXCEPT ![pid].full_label = label ]
         IN  IF P1[pid].expression = NoExpression THEN UpdateFrom(G, P1, g, pairs, i + 1)
             ELSE IF ~G[g].evaluator THEN [ params |-> P1, raised |-> "TypeError" ]
             ELSE LET ev == Evaluate(G, P1, g, P1[pid].expression)
                  IN  IF ~ev.number THEN [ params |-> ev.params, raised |-> "ValueError" ]
                      ELSE UpdateFrom(G, [ ev.params EXCEPT ![pid].value = ev.value ],
                                      g, pairs, i + 1)

\* ParameterGroup.update_parameter_expression: [params, raised]
update_parameter_expression(G, P, g) == UpdateFrom(G, P, g, all(G, g, << >>, TRUE), 1)

\* get_label_value_and_bounds_arrays that takes every parameter, whatever
\* exclude_non_vary says
get_label_value_and_bounds_arrays_all(G, P, g, exclude_non_vary) ==
    LET updated == update_parameter_expression(G, P, g)
        pairs == all(G, g, << >>, TRUE)
        P1 == Yielded(updated.params, pairs)
        bounds(i) == get_value_and_bounds_for_optimization(P1[pairs[i][2]])
    IN  IF updated.raised # ""
        THEN [ params |-> updated.params, raised |-> updated.raised, result |-> << >> ]
        ELSE [ params |-> P1, raised |-> "",
               result |-> [ labels |-> [ i \in DOMAIN pairs |-> pairs[i][1] ],
                            values |-> [ i \in DOMAIN pairs |-> bounds(i)[1] ],
                            lower_bounds |-> [ i \in DOMAIN pairs |-> bounds(i)[2] ],
                            upper_bounds |-> [ i \in DOMAIN pairs |-> bounds(i)[3] ] ] ]

\* ParameterGroup.get_label_value_and_bounds_arrays: [params, raised, result],
\* the result being [labels, values, lower_bounds, upper_bounds]
get_label_value_and_bounds_arrays(G, P, g, exclude_non_vary) ==
    LET updated == update_parameter_expression(G, P, g)
        pairs == all(G, g, << >>, TRUE)
        P1 == Yielded(updated.params, pairs)
        kept == SelectSeq(pairs, LAMBDA pair : ~exclude_non_vary \/ Vary(P1[pair[2]]))
        bounds(i) == get_value_and_bounds_for_optimization(P1[kept[i][2]])
    IN  IF updated.raised # ""
        THEN [ params |-> updated.params, raised |-> updated.raised, result |-> << >> ]
        ELSE [ params |-> P1, raised |-> "",
               result |-> [ labels |-> [ i \in DOMAIN kept |-> kept[i][1] ],
                            values |-> [ i \in DOMAIN kept |-> bounds(i)[1] ],
                            lower_bounds |-> [ i \in DOMAIN kept |-> bounds(i)[2] ],
                            upper_bounds |-> [ i \in DOMAIN kept |-> bounds(i)[3] ] ] ]

\* ParameterGroup.set_from_label_and_value_arrays, the loop from the i-th
\* label on: [params, raised]
RECURSIVE SetFrom(_, _, _, _, _, _)
SetFrom(G, P, g, labels_, values, i) ==
    IF i > Len(labels_) THEN [ params |-> P, raised |-> "" ]
    ELSE LET found == get(G, P, g, labels_[i])
         IN  IF found.raised # "" THEN [ params |-> P, raised |-> found.raised ]
             ELSE SetFrom(G, [ found.params EXCEPT ![found.result] =
                                  set_value_from_optimization(@, values[i]) ],
                          g, labels_, values, i + 1)

\* ParameterGroup.set_from_label_and_value_arrays: [params, raised]
set_from_label_and_value_arrays(G, P, g, labels_, values) ==
    IF Len(labels_) # Len(values) THEN [ params |-> P, raised |-> "ValueError" ]
    ELSE LET set == SetFrom(G, P, g, labels_, values, 1)
         IN  IF set.raised # "" THEN set
             ELSE update_parameter_expression(G, set.params, g)

\* Parameter.from_dict: the label is the last segment of the dotted label
\* (the empty string for the empty dotted label)
from_dict(parameter_dict) ==
    [ Parameter(IF parameter_dict.label = << >> THEN ""
                ELSE parameter_dict.label[Len(parameter_dict.label)], parameter_dict.value,
                parameter_dict.expression, parameter_dict.vary,
                parameter_dict.minimum, parameter_dict.maximum)
      EXCEPT !.full_label = parameter_dict.label ]

\* Parameter.as_dict with the label of the parameter as the label of the dict
as_dict_own_label(p) ==
    [ label |-> << p.label >>, value |-> p.value, expression |-> p.expression,
      vary |-> Vary(p), minimum |-> p.minimum, maximum |-> p.maximum ]

\* Parameter.as_dict: the label of the dict is the full label, the dotted
\* label that from_parameter_dict_list reads
as_dict(p) ==
    [ label |-> p.full_label, value |-> p.value, expression |-> p.expression,
      vary |-> Vary(p), minimum |-> p.minimum, maximum |-> p.maximum ]

\* ParameterGroup.from_parameter_dict_list, the loop from the i-th dict on:
\* [groups, params]
RECURSIVE AddFromDicts(_, _, _, _)
AddFromDicts(G, P, parameter_dict_list, i) ==
    IF i > Len(parameter_dict_list) THEN [ groups |-> G, params |-> P ]
    ELSE LET found == get_group_for_parameter_by_label(G, 1, parameter_dict_list[i].label, TRUE)
             added == add_parameter(found.groups, P, found.result,
                                    from_dict(parameter_dict_list[i]))
         IN  AddFromDicts(added.groups, added.params, parameter_dict_list, i + 1)

\* ParameterGroup.from_parameter_dict_list: [groups, params, raised]
from_parameter_dict_list(parameter_dict_list) ==
    LET built == AddFromDicts(<< ParameterGroup(NoLabel, NoGroup) >>, << >>,
                              parameter_dict_list, 1)
        updated == update_parameter_expression(built.groups, built.params, 1)
    IN  [ groups |-> built.groups, params |-> updated.params, raised |-> updated.raised ]

\* the labels explored
GroupLabels == { "a", "b" }
ParameterLabels == { "1", "2" }

\* the dotted labels explored: a path of groups, then any label
Paths ==
    { prefix \o << l >> : prefix \in { << >>, << "a" >>, << "b" >>, << "a", "b" >> },
                          l \in GroupLabels \cup ParameterLabels }

\* the outcome of an operation on the store: its name, the group it was
\* invoked on and the exception it raised ("" for none)
Outcome(name, g, raised) == [ name |-> name, group |-> g, raised |-> raised ]

\* no data provider is constructed
NoProvider ==
    /\ labels = << >>
    /\ ds_global_axis = << >>
    /\ ds_model_axis = << >>
    /\ ds_dims = << >>
    /\ ds_model_dimension = << >>
    /\ ds_data = << >>
    /\ ds_weight = << >>
    /\ memory = NoMemory
    /\ has_global_model = << >>
    /\ model_weights = << >>
    /\ clp_link_tolerance = 0
    /\ clp_link_method = "nearest"
    /\ InitProvider

\* the groups a caller holds: none when the construction of the store raised
Returned ==
    IF op.name = "from_parameter_dict_list" /\ op.raised # "" THEN { } ELSE DOMAIN groups

\* group.add_parameter(Parameter(...)) on any group of the store
AddParameter ==
    /\ Len(params) < MaxParams
    /\ \E g \in Returned, label \in ParameterLabels \cup { NoLabel }, vary \in BOOLEAN :
          LET pid == Len(params) + 1
              added == add_parameter(groups, params, g,
                                     Parameter(label, Num(pid), NoExpression, vary,
                                               Fin(0 - pid), Fin(10 + pid)))
          IN  /\ groups' = added.groups
              /\ params' = added.params
              /\ op' = Outcome("add_parameter", g, "")
    /\ UNCHANGED << memory, scheme, analysis, provider >>

\* group.add_group(ParameterGroup(label, root_group=group)) on any group
AddGroup ==
    /\ Len(groups) < MaxGroups
    /\ \E g \in Returned, label \in GroupLabels :
          /\ groups' = add_group(groups, g, label, g)
          /\ op' = Outcome("add_group", g, "")
    /\ UNCHANGED << memory, scheme, analysis, provider, params >>

\* group.get_group_for_parameter_by_label(label, create_if_not_exist)
GetGroupForParameterByLabel ==
    /\ \E g \in Returned, path \in Paths, create_if_not_exist \in BOOLEAN :
          LET found == get_group_for_parameter_by_label(groups, g, path, create_if_not_exist)
          IN  /\ Len(found.groups) <= MaxGroups
              /\ groups' = found.groups
              /\ op' = Outcome("get_group_for_parameter_by_label", g, found.raised)
    /\ UNCHANGED << memory, scheme, analysis, provider, params >>

\* group.get(label)
Get ==
    /\ \E g \in Returned, path \in Paths :
          LET found == get(groups, params, g, path)
          IN  /\ params' = found.params
              /\ op' = Outcome("get", g, found.raised)
    /\ UNCHANGED << memory, scheme, analysis, provider, groups >>

\* group.has(label)
Has ==
    /\ \E g \in Returned, path \in Paths :
          /\ params' = get(groups, params, g, path).params
          /\ op' = Outcome("has", g, "")
    /\ UNCHANGED << memory, scheme, analysis, provider, groups >>

\* list(group.all())
All ==
    /\ \E g \in Returned :
          /\ params' = Yielded(params, all(groups, g, << >>, TRUE))
          /\ op' = Outcome("all", g, "")
    /\ UNCHANGED << memory, scheme, analysis, provider, groups >>

\* ParameterGroup.groups: [raised, result]; the loop is over the keys of the
\* dict, the labels of the subgroups, and a label has no method groups; what
\* is yielded is only what the calls on the subgroups yield
groups_generator(G, g) ==
    IF G[g].items = << >> THEN [ raised |-> "", result |-> << >> ]
    ELSE [ raised |-> "AttributeError", result |-> << >> ]

\* list(group.groups())
Groups ==
    /\ \E g \in Returned : op' = Outcome("groups", g, groups_generator(groups, g).raised)
    /\ UNCHANGED << memory, scheme, analysis, provider, groups, params >>

\* group.copy()
Copy ==
    /\ \E g \in Returned :
          LET copied == copy(groups, params, g)
          IN  /\ Len(copied.groups) <= MaxGroups
              /\ Len(copied.params) <= MaxParams
              /\ groups' = copied.groups
              /\ params' = copied.params
              /\ op' = Outcome("copy", g, "")
    /\ UNCHANGED << memory, scheme, analysis, provider >>

\* the values of the parameters are within the values explored
ValuesWithin(P) == \A pid \in DOMAIN P : IsNaN(P[pid].value) \/ P[pid].value[1] <= MaxValue

\* group.update_parameter_expression()
UpdateParameterExpression ==
    /\ \E g \in Returned :
          LET updated == update_parameter_expression(groups, params, g)
          IN  /\ ValuesWithin(updated.params)
              /\ params' = updated.params
              /\ op' = Outcome("update_parameter_expression", g, updated.raised)
    /\ UNCHANGED << memory, scheme, analysis, provider, groups >>

\* group.get_label_value_and_bounds_arrays(exclude_non_vary)
GetLabelValueAndBoundsArrays ==
    /\ \E g \in Returned, exclude_non_vary \in BOOLEAN :
          LET got == get_label_value_and_bounds_arrays(groups, params, g, exclude_non_vary)
          IN  /\ ValuesWithin(got.params)
              /\ params' = got.params
              /\ op' = Outcome("get_label_value_and_bounds_arrays", g, got.raised)
    /\ UNCHANGED << memory, scheme, analysis, provider, groups >>

\* the arrays handed to set_from_label_and_value_arrays: at most two labels
\* and at most two values
SetLabels == { << "1" >>, << "2" >>, << "a", "1" >> }
LabelArrays == { << >> } \cup { << p >> : p \in SetLabels } \cup { << p, q >> : p, q \in SetLabels }
ValueArrays == { << >>, << Num(5) >>, << Num(5), Num(6) >> }

\* group.set_from_label_and_value_arrays(labels, values)
SetFromLabelAndValueArrays ==
    /\ \E g \in Returned, labels_ \in LabelArrays, values \in ValueArrays :
          LET set == set_from_label_and_value_arrays(groups, params, g, labels_, values)
          IN  /\ ValuesWithin(set.params)
              /\ params' = set.params
              /\ op' = Outcome("set_from_label_and_value_arrays", g, set.raised)
    /\ UNCHANGED << memory, scheme, analysis, provider, groups >>

\* an empty root store: ParameterGroup()
InitStore ==
    /\ NoProvider
    /\ NoAnalysis
    /\ groups = << ParameterGroup(NoLabel, NoGroup) >>
    /\ params = << >>
    /\ op = Outcome("ParameterGroup", 1, "")

NextStore ==
    \/ Groups
    \/ AddParameter
    \/ AddGroup
    \/ GetGroupForParameterByLabel
    \/ Get
    \/ All
    \/ Copy

SpecStore == InitStore /\ [][NextStore]_vars

\* a parameter dict of from_parameter_dict_list
ParameterDict(label, value, expression, vary, minimum, maximum) ==
    [ label |-> label, value |-> value, expression |-> expression, vary |-> vary,
      minimum |-> minimum, maximum |-> maximum ]

\* the lists of at most maxlen parameter dicts whose label, expression and
\* vary are drawn from choices; the i-th has the value i and bounds of its own
ParameterDictLists(maxlen, choices) ==
    UNION { { [ i \in 1..len |->
                  ParameterDict(c[i][1], Num(i), c[i][2], c[i][3], Fin(0 - i), Fin(10 + i)) ] :
              c \in [ 1..len -> choices ] } : len \in 0..maxlen }

\* the store is still to be built from the parameter dict list
Input(parameter_dict_list) ==
    [ name |-> "input", group |-> NoGroup, raised |-> "", arg |-> parameter_dict_list ]

\* ParameterGroup.from_parameter_dict_list(parameter_dict_list)
FromParameterDictList ==
    /\ op.name = "input"
    /\ LET built == from_parameter_dict_list(op.arg)
       IN  /\ groups' = built.groups
           /\ params' = built.params
           /\ op' = Outcome("from_parameter_dict_list", 1, built.raised)
    /\ UNCHANGED << memory, scheme, analysis, provider >>

\* parameters without expression under five labels, varying or fixed
QueryChoices ==
    { << "1" >>, << "2" >>, << "a", "1" >>, << "b", "1" >>, << "a", "b", "1" >> }
        \X { NoExpression } \X BOOLEAN

InitQuery ==
    /\ NoProvider
    /\ NoAnalysis
    /\ groups = << >>
    /\ params = << >>
    /\ op \in { Input(l) : l \in ParameterDictLists(MaxParams, QueryChoices) }

NextQuery ==
    \/ FromParameterDictList
    \/ Get
    \/ Has
    \/ All
    \/ GetLabelValueAndBoundsArrays

SpecQuery == InitQuery /\ [][NextQuery]_vars

\* parameters with and without expression: references between the labels
\* "1", "2" and "a.1", a number, and an expression that is no number
ExpressionChoices ==
    { << << "1" >>, NoExpression, TRUE >>,
      << << "1" >>, NoExpression, FALSE >>,
      << << "2" >>, NoExpression, TRUE >>,
      << << "a", "1" >>, NoExpression, TRUE >>,
      << << "1" >>, RefExpression(<< "2" >>, 1), TRUE >>,
      << << "2" >>, RefExpression(<< "a", "1" >>, 1), TRUE >>,
      << << "a", "1" >>, RefExpression(<< "1" >>, 1), TRUE >>,
      << << "2" >>, ConstExpression(5), TRUE >>,
      << << "2" >>, NoneExpression, TRUE >> }

InitExpression ==
    /\ NoProvider
    /\ NoAnalysis
    /\ groups = << >>
    /\ params = << >>
    /\ op \in { Input(l) : l \in ParameterDictLists(MaxParams, ExpressionChoices) }

NextExpression ==
    \/ FromParameterDictList
    \/ UpdateParameterExpression
    \/ GetLabelValueAndBoundsArrays
    \/ SetFromLabelAndValueArrays

SpecExpression == InitExpression /\ [][NextExpression]_vars

-----------------------------------------------------------------------------
(* Alignment of the global axes *)

Aligning == pc = "align_axes" /\ aligned_axis_values # None
Accepted == Len(aligned_global_axes') = k
AlignedAxes == pc \in { "align_data", "align_indices", "align_groups", "align_weights", "done" }
AxisBuilt == pc \in { "align_indices", "align_groups", "align_weights", "done" }
NoRepeat(s) == \A i, j \in DOMAIN s : i # j => s[i] # s[j]
Dist(v, c) == Abs(v - c)
AlignedValues(axes) == UNION { SeqToSet(axes[d]) : d \in DOMAIN axes }

\* C1: when two distinct values of the axis of a dataset after the first are
\* aligned to the same shared coordinate, AlignDatasetError is raised; the
\* aligned axis of every accepted dataset has no coordinate twice, so that the
\* mapping of its local values to shared coordinates is injective.
C1_AlignmentInjective ==
    [][ /\ ( Aligning /\ \E i, j \in DOMAIN global_axes[k] :
                            /\ i # j
                            /\ align_index(global_axes[k][i], aligned_axis_values,
                                           clp_link_tolerance, clp_link_method)
                               = align_index(global_axes[k][j], aligned_axis_values,
                                             clp_link_tolerance, clp_link_method) )
           => ( pc' = "error" /\ error' = "AlignDatasetError" )
        /\ \A d \in DOMAIN aligned_global_axes' : NoRepeat(aligned_global_axes'[d])
      ]_vars

\* C1 witness: alignment of a later dataset was refused as ambiguous
C1_Witness == error = "AlignDatasetError" /\ k > 1 /\ run = 1

\* C2: with method "nearest" a value v of a dataset after the first is aligned
\* on the coordinates of all datasets before it: it becomes a closest
\* coordinate c when |v - c| <= tolerance, else it stays v and joins the shared set.
C2_NearestAlignment ==
    [][ ( Aligning /\ clp_link_method = "nearest" /\ Accepted ) =>
          LET shared == SeqToSet(aligned_axis_values)
          IN  /\ shared = AlignedValues(aligned_global_axes)
              /\ \A j \in DOMAIN global_axes[k] :
                    LET v == global_axes[k][j]
                        a == aligned_global_axes'[k][j]
                    IN  IF \E c \in shared : Dist(v, c) <= clp_link_tolerance
                        THEN /\ a \in shared
                             /\ \A c \in shared : Dist(v, a) <= Dist(v, c)
                        ELSE /\ a = v
                             /\ v \in SeqToSet(aligned_axis_values')
                             /\ v \notin shared
      ]_vars

\* C2 witness: under "nearest" the third dataset had one value at exactly the
\* tolerance from a coordinate introduced by the second dataset and took it,
\* and the second dataset introduced a new coordinate
C2_Witness ==
    /\ clp_link_method = "nearest" /\ run = 1 /\ clp_link_tolerance > 0
    /\ Len(aligned_global_axes) = 3
    /\ \E j \in DOMAIN global_axes[3] :
          /\ aligned_global_axes[3][j] # global_axes[3][j]
          /\ Dist(aligned_global_axes[3][j], global_axes[3][j]) = clp_link_tolerance
          /\ aligned_global_axes[3][j] \notin SeqToSet(aligned_global_axes[1])
    /\ \E j \in DOMAIN global_axes[2] : aligned_global_axes[2][j] = global_axes[2][j]

\* the result a of aligning v on target lies on the side the method allows,
\* within the tolerance, and is the closest coordinate on that side
Directed(v, a, target, tolerance, method) ==
    \/ a = v
    \/ /\ method = "forward"
       /\ a \in target /\ a >= v /\ a - v <= tolerance
       /\ \A c \in target : c >= v => a <= c
    \/ /\ method = "backward"
       /\ a \in target /\ a <= v /\ v - a <= tolerance
       /\ \A c \in target : c <= v => a >= c

\* C3: with "forward" ("backward") align_index returns the value itself or the
\* closest coordinate not below (not above) it within the tolerance.
C3_DirectedAlignment ==
    ( Aligning /\ clp_link_method \in { "forward", "backward" } ) =>
        \A j \in DOMAIN global_axes[k] :
            Directed(global_axes[k][j],
                     align_index(global_axes[k][j], aligned_axis_values,
                                 clp_link_tolerance, clp_link_method),
                     SeqToSet(aligned_axis_values), clp_link_tolerance, clp_link_method)

\* C4: constructing again on the aligned axes of a successful construction
\* raises nothing and gives the same aligned axes and the same shared axis,
\* without duplicates; datasets whose global axes are identical are aligned
\* without AlignDatasetError, each on its own axis.
C4_AlignmentIdempotent ==
    /\ run = 2 =>
          /\ error = ""
          /\ \A d \in DOMAIN aligned_global_axes :
                aligned_global_axes[d] = first.aligned_global_axes[d]
          /\ AlignedAxes => aligned_axis_values = first.aligned_axis_values
          /\ AxisBuilt => /\ aligned_global_axis = first.aligned_global_axis
                          /\ NoRepeat(aligned_global_axis)
    /\ ( \A d \in DOMAIN global_axes : global_axes[d] = global_axes[1] ) =>
          /\ error # "AlignDatasetError"
          /\ \A d \in DOMAIN aligned_global_axes : aligned_global_axes[d] = global_axes[d]

\* C5 as claimed: the aligned global axis is strictly increasing and holds
\* exactly the aligned values of all datasets.
C5_AxisSortedUnion ==
    AxisBuilt => /\ IsIncreasing(aligned_global_axis)
                 /\ SeqToSet(aligned_global_axis) = AlignedValues(aligned_global_axes)

AllAxesSame == \A d \in DOMAIN aligned_global_axes : aligned_global_axes[d] = aligned_global_axes[1]

\* C5 amended: the aligned global axis has no duplicates and holds exactly the
\* aligned values of all datasets; it is strictly increasing unless the aligned
\* axes of all datasets are one and the same sequence, and then it is that sequence.
C5_AxisUnion ==
    AxisBuilt => /\ NoRepeat(aligned_global_axis)
                 /\ SeqToSet(aligned_global_axis) = AlignedValues(aligned_global_axes)
                 /\ IF AllAxesSame THEN aligned_global_axis = aligned_global_axes[1]
                    ELSE IsIncreasing(aligned_global_axis)

\* C5 witness: datasets with different aligned axes, the first not increasing,
\* were joined
C5_Witness ==
    /\ pc = "done" /\ run = 1 /\ N >= 2
    /\ ~AllAxesSame
    /\ ~IsIncreasing(aligned_global_axes[1])
    /\ Len(aligned_global_axis) > Len(aligned_global_axes[1])

-----------------------------------------------------------------------------
(* Groups, data, weights and indices on the aligned axis *)

GroupsBuilt == pc \in { "align_weights", "done" } \/ ( pc = "error" /\ error = "KeyError" )

\* the datasets with a global-axis value aligned to the shared coordinate at
\* position i, in dataset order
Contributors(i) ==
    SelectSeq([ d \in DOMAIN aligned_global_axes |-> d ],
              LAMBDA d : aligned_global_axis[i] \in SeqToSet(aligned_global_axes[d]))

\* the position in the axis of dataset d aligned to the shared coordinate at i
LocalPosition(d, i) ==
    CHOOSE j \in DOMAIN aligned_global_axes[d] :
        aligned_global_axes[d][j] = aligned_global_axis[i]

\* C6: the group definition of every shared coordinate lists the labels of
\* exactly the datasets contributing to it, in dataset order.
C6_GroupDefinitions ==
    GroupsBuilt =>
        \A i \in DOMAIN aligned_global_axis :
            group_definitions[aligned_group_labels[i]]
                = [ n \in DOMAIN Contributors(i) |-> labels[Contributors(i)[n]] ]

\* C7: the aligned data of every shared coordinate is the concatenation, in
\* dataset order, of the weighted data columns of the contributing datasets at
\* their aligned local index; its length is the sum of their model-axis sizes.
C7_AlignedData ==
    AxisBuilt =>
        \A i \in DOMAIN aligned_global_axis :
            /\ aligned_data[i]
                 = Flatten([ n \in DOMAIN Contributors(i) |->
                               LET d == Contributors(i)[n]
                               IN  [ m \in DOMAIN data[d] |-> data[d][m][LocalPosition(d, i)] ] ])
            /\ Len(aligned_data[i])
                 = Len(Flatten([ n \in DOMAIN Contributors(i) |->
                                   model_axes[Contributors(i)[n]] ]))

\* C8: the aligned weight of a shared coordinate is None exactly when no
\* contributing dataset has a weight; otherwise it is the concatenation, in
\* dataset order, of the weight columns of the contributing datasets, ones for
\* those without weight, and is as long as the aligned data. The construction
\* does not fail in align_weights.
C8_AlignedWeights ==
    /\ error # "KeyError"
    /\ pc = "done" =>
          \A i \in DOMAIN aligned_global_axis :
              IF \A n \in DOMAIN Contributors(i) : weight[Contributors(i)[n]] = None
              THEN aligned_weights[i] = None
              ELSE /\ aligned_weights[i]
                        = Flatten([ n \in DOMAIN Contributors(i) |->
                                      LET d == Contributors(i)[n]
                                      IN  IF weight[d] = None
                                          THEN [ m \in DOMAIN model_axes[d] |-> 1 ]
                                          ELSE [ m \in DOMAIN weight[d] |->
                                                   weight[d][m][LocalPosition(d, i)] ] ])
                   /\ Len(aligned_weights[i]) = Len(aligned_data[i])

\* C9: the aligned dataset indices of a shared coordinate have one entry per
\* dataset of the group definition at that coordinate, in the same order: the
\* (0-based) local index of that dataset aligned to the coordinate.
C9_AlignedDatasetIndices ==
    GroupsBuilt =>
        \A i \in DOMAIN aligned_global_axis :
            LET definition == group_definitions[aligned_group_labels[i]]
            IN  /\ Len(aligned_dataset_indices[i]) = Len(definition)
                /\ \A n \in DOMAIN definition :
                      LET d == DatasetOf(definition[n])
                      IN  /\ aligned_global_axis[i] \in SeqToSet(aligned_global_axes[d])
                          /\ aligned_dataset_indices[i][n] = LocalPosition(d, i) - 1

-----------------------------------------------------------------------------
(* Weights *)

\* the array a of the dataset at position d as (model, global)
AsModelGlobal(a, d) ==
    IF ds_dims[d][1] = ds_model_dimension[d] THEN a ELSE Transpose(a)

\* a model weight lists the dataset at position d
HasModelWeight(d) == \E n \in DOMAIN model_weights : labels[d] \in model_weights[n].datasets

\* C10: for a dataset with an embedded weight that a model weight lists too,
\* the construction raises nothing, warns, keeps the embedded weight and
\* applies it to the data.
C10_WeightPrecedence ==
    \A d \in DOMAIN weight :
        ( ds_weight[d] # None /\ HasModelWeight(d) ) =>
            /\ error # "ValueError"
            /\ d \in warned
            /\ weight[d] = AsModelGlobal(ds_weight[d], d)
            /\ d \in DOMAIN data =>
                  data[d] = MulArray(AsModelGlobal(ds_data[d], d), AsModelGlobal(ds_weight[d], d))

\* C11: for every dataset the provider has stored, get_data is an array over
\* (model, global) whatever the order of the dimensions in the dataset, and
\* its element at (m, g) is the raw value at model index m and global index g
\* when get_weight is None, and that raw value multiplied once by the element
\* (m, g) of get_weight otherwise.
C11_WeightedData ==
    \A d \in DOMAIN data :
        /\ DOMAIN data[d] = DOMAIN ds_model_axis[d]
        /\ \A m \in DOMAIN data[d] :
              /\ DOMAIN data[d][m] = DOMAIN ds_global_axis[d]
              /\ \A g \in DOMAIN data[d][m] :
                    data[d][m][g] = IF weight[d] = None THEN Num(CellValue(d, m, g))
                                    ELSE Num(CellValue(d, m, g) * weight[d][m][g])

\* a dataset stored as (global, model) with axes of different sizes has been
\* given a model weight other than 1 and its data are stored
C11_Witness ==
    \E d \in DOMAIN data :
        /\ ds_dims[d] = << "spectral", "time" >>
        /\ Len(ds_global_axis[d]) # Len(ds_model_axis[d])
        /\ ds_weight[d] = None
        /\ weight[d] # None
        /\ weight[d][1][1] > 1

\* the coordinate c lies inside the interval (None: the whole axis), the
\* bounds taken in increasing order
Inside(c, interval) ==
    \/ interval = None
    \/ LET swap == BoundGt(interval[1], interval[2])
           lo == IF swap THEN interval[2] ELSE interval[1]
           hi == IF swap THEN interval[1] ELSE interval[2]
       IN  ~BoundGt(lo, Fin(c)) /\ ~BoundGt(Fin(c), hi)

\* the model weights that list the dataset at position d
WeightsListing(d) == SelectSeq(model_weights, LAMBDA mw : labels[d] \in mw.datasets)

\* the product of the values of the model weights whose window holds the point
RECURSIVE WindowProduct(_, _, _)
WindowProduct(mws, cm, cg) ==
    IF mws = << >> THEN 1
    ELSE ( IF Inside(cm, Head(mws).model_interval) /\ Inside(cg, Head(mws).global_interval)
           THEN Head(mws).value ELSE 1 ) * WindowProduct(Tail(mws), cm, cg)

\* C12: a dataset no model weight lists gets no model weight; for a dataset
\* without embedded weight that model weights list, the weight of a point is
\* the value of the model weight when its model coordinate lies inside
\* model_interval and its global coordinate inside global_interval, else 1.
C12_ModelWeightWindow ==
    \A d \in DOMAIN weight :
        ds_weight[d] = None =>
            IF WeightsListing(d) = << >> THEN weight[d] = None
            ELSE /\ weight[d] # None
                 /\ \A m \in DOMAIN ds_model_axis[d], g \in DOMAIN ds_global_axis[d] :
                       weight[d][m][g] =
                           WindowProduct(WeightsListing(d), ds_model_axis[d][m],
                                         ds_global_axis[d][g])

-----------------------------------------------------------------------------
(* Parameter store *)

\* the parameters of the tree below group g
InTree(g) == { pair[2] : pair \in SeqToSet(all(groups, g, << >>, TRUE)) }

\* the group the path of labels leads to from g by the subgroups of the tree,
\* NoGroup when there is none
RECURSIVE GroupAt(_, _)
GroupAt(g, path) ==
    IF path = << >> THEN g
    ELSE LET next == { i \in DOMAIN groups[g].items : groups[g].items[i][1] = Head(path) }
         IN  IF next = {} THEN NoGroup
             ELSE GroupAt(groups[g].items[CHOOSE i \in next : TRUE][2], Tail(path))

\* the parameter stored at the dotted label from group g, 0 when there is none
ParameterAt(g, label) ==
    LET group == GroupAt(g, SubSeq(label, 1, Len(label) - 1))
        found == IF group = NoGroup THEN {}
                 ELSE { i \in DOMAIN groups[group].parameters :
                          groups[group].parameters[i][1] = label[Len(label)] }
    IN  IF found = {} THEN 0 ELSE groups[group].parameters[CHOOSE i \in found : TRUE][2]

\* the expression of a parameter of the root store has a value on the current
\* values of the parameters, and the parameter has that value
AtFixedPoint(pid) ==
    LET expression == params[pid].expression
        referenced == ParameterAt(1, expression.ref)
    IN  CASE expression.kind = "const" -> params[pid].value = Num(expression.plus)
          [] expression.kind = "ref" ->
                /\ referenced # 0
                /\ params[pid].value =
                      IF IsNaN(params[referenced].value) THEN NaN
                      ELSE Num(params[referenced].value[1] + expression.plus)
          [] OTHER -> FALSE

\* an operation that ends with update_parameter_expression has returned on
\* the root store
Updated ==
    /\ op.name \in { "from_parameter_dict_list", "update_parameter_expression",
                     "set_from_label_and_value_arrays" }
    /\ op.group = 1
    /\ op.raised = ""

\* C13: after update_parameter_expression has returned on the root store (at
\* the end of the construction, of set_from_label_and_value_arrays, or by
\* itself), every parameter with an expression has the value of its
\* expression on the current values of the parameters it references.
C13_ExpressionFixedPoint ==
    Updated => \A pid \in InTree(1) :
                  params[pid].expression # NoExpression => AtFixedPoint(pid)

RECURSIVE DepthFirst(_, _)
DepthFirst(g, path) ==
    [ i \in DOMAIN groups[g].parameters |->
        << path \o << groups[g].parameters[i][1] >>, groups[g].parameters[i][2] >> ]
    \o Flatten([ i \in DOMAIN groups[g].items |->
                   DepthFirst(groups[g].items[i][2], path \o << groups[g].items[i][1] >>) ])

\* C15: get_label_value_and_bounds_arrays on any group returns four sequences
\* of one length whose k-th entries are the dotted label from that group, the
\* value and the bounds of the k-th parameter in depth-first order (of those
\* that vary when the others are excluded); a second call returns the same
\* labels, and set_from_label_and_value_arrays with the labels and values
\* returned finds under the k-th label the k-th parameter and raises nothing.
C15_ArraysDepthFirst ==
    \A g \in DOMAIN groups, exclude_non_vary \in BOOLEAN :
        LET got == get_label_value_and_bounds_arrays(groups, params, g, exclude_non_vary)
            expected == SelectSeq(DepthFirst(g, << >>),
                                  LAMBDA pair : ~exclude_non_vary \/ params[pair[2]].vary)
            again == get_label_value_and_bounds_arrays(groups, got.params, g, exclude_non_vary)
            set == set_from_label_and_value_arrays(groups, got.params, g,
                                                   got.result.labels, got.result.values)
        IN  got.raised = "" =>
               /\ Len(got.result.labels) = Len(expected)
               /\ Len(got.result.values) = Len(expected)
               /\ Len(got.result.lower_bounds) = Len(expected)
               /\ Len(got.result.upper_bounds) = Len(expected)
               /\ \A n \in DOMAIN expected :
                     /\ got.result.labels[n] = expected[n][1]
                     /\ got.result.values[n] = params[expected[n][2]].value
                     /\ got.result.lower_bounds[n] = params[expected[n][2]].minimum
                     /\ got.result.upper_bounds[n] = params[expected[n][2]].maximum
                     /\ ParameterAt(g, got.result.labels[n]) = expected[n][2]
               /\ again.raised = ""
               /\ again.result.labels = got.result.labels
               /\ set.raised = ""
               /\ \A pid \in DOMAIN params : set.params[pid].value = params[pid].value

\* get_label_value_and_bounds_arrays has returned on a root store that has a
\* parameter of its own which was added after a parameter of a subgroup
C15_Witness ==
    /\ op.name = "get_label_value_and_bounds_arrays"
    /\ op.group = 1
    /\ op.raised = ""
    /\ \E i \in DOMAIN groups[1].parameters, j \in DOMAIN groups[1].items :
          \E q \in InTree(groups[1].items[j][2]) : q < groups[1].parameters[i][2]

\* C16: on any group and for any dotted label, get returns the parameter
\* stored at the label and has returns True when there is one; get raises
\* ParameterNotFoundException and has returns False when a group of the path
\* or the parameter is absent (also when the label names a group); no
\* parameter value is changed.
C16_GetAndHas ==
    \A g \in DOMAIN groups, label \in Paths :
        LET found == get(groups, params, g, label)
            stored == ParameterAt(g, label)
        IN  /\ IF stored = 0
               THEN /\ found.raised = "ParameterNotFoundException"
                    /\ ~has(groups, params, g, label)
               ELSE /\ found.raised = ""
                    /\ found.result = stored
                    /\ has(groups, params, g, label)
            /\ \A pid \in DOMAIN params : found.params[pid].value = params[pid].value

\* get has raised ParameterNotFoundException on a store with a parameter in a
\* subgroup of a subgroup, and a label of the store names a group
C16_Witness ==
    /\ op.name = "get"
    /\ op.raised = "ParameterNotFoundException"
    /\ ParameterAt(1, << "a", "b", "1" >>) # 0
    /\ ParameterAt(1, << "a", "b" >>) = 0

\* C17: every parameter of the root store has as full_label the labels of
\* the groups that lead to it from the root, followed by its own label.
C17_FullLabel ==
    groups # << >> =>
        \A pair \in SeqToSet(DepthFirst(1, << >>)) : params[pair[2]].full_label = pair[1]

\* the expression of a parameter of the root store evaluates to a number
EvaluatesToNumber(pid) ==
    \/ params[pid].expression.kind = "const"
    \/ /\ params[pid].expression.kind = "ref"
       /\ ParameterAt(1, params[pid].expression.ref) # 0

\* C18: update_parameter_expression on the root store returns only when every
\* expression evaluates to a number, and raises ValueError otherwise (for the
\* expression 'None' or a reference that finds no parameter); no parameter
\* ever has a value that is no number.
C18_NonNumericExpression ==
    /\ \A pid \in DOMAIN params : params[pid].value # NoNumber
    /\ ( /\ op.name \in { "from_parameter_dict_list", "update_parameter_expression" }
         /\ op.group = 1
         /\ op.raised \in { "", "ValueError" } )
       => ( op.raised = "ValueError" <=>
              \E pid \in InTree(1) :
                  params[pid].expression # NoExpression /\ ~EvaluatesToNumber(pid) )

\* the construction of a store has raised ValueError, the store holding a
\* parameter with the expression 'None'
C18_Witness ==
    /\ op.name = "from_parameter_dict_list"
    /\ op.raised = "ValueError"
    /\ \E pid \in InTree(1) : params[pid].expression = NoneExpression

-----------------------------------------------------------------------------
(* Simulation *)

\* a megacomplex: the labels of the columns of its matrix, whether the
\* matrix depends on the global index, and the offset of its entries
Megacomplex(clp_labels, is_index_dependent, base) ==
    [ clp_labels |-> clp_labels, is_index_dependent |-> is_index_dependent, base |-> base ]

\* Megacomplex.calculate_matrix as a subclass overwrites it: a matrix over
\* (model_axis, clp_labels) that is a function of the arguments; the global
\* index (1-based) is None for a matrix that does not depend on it
calculate_matrix(megacomplex, global_index, global_axis, model_axis) ==
    [ clp_labels |-> megacomplex.clp_labels,
      matrix |-> [ t \in DOMAIN model_axis |->
                     [ c \in DOMAIN megacomplex.clp_labels |->
                         megacomplex.base + model_axis[t] + (c - 1)
                           + IF global_index = None THEN 0
                             ELSE global_axis[global_index[1]] ] ] ]

\* DatasetModel.has_global_model
HasGlobalModel(dataset_model) == Len(dataset_model.global_megacomplex) # 0

\* DatasetModel.is_index_dependent
is_index_dependent(dataset_model) ==
    \E i \in DOMAIN dataset_model.megacomplex : dataset_model.megacomplex[i].is_index_dependent

\* MatrixProvider.calculate_dataset_matrix: the matrices of the (global)
\* megacomplexes of the dataset model, concatenated column-wise; the rows of
\* a global matrix are the points of the global axis
calculate_dataset_matrix(dataset_model, global_index, global_axis, model_axis, global_matrix) ==
    LET megacomplexes == IF global_matrix THEN dataset_model.global_megacomplex
                         ELSE dataset_model.megacomplex
        rows == IF global_matrix THEN global_axis ELSE model_axis
        other == IF global_matrix THEN model_axis ELSE global_axis
        blocks == [ i \in DOMAIN megacomplexes |->
                      calculate_matrix(megacomplexes[i], global_index, other, rows) ]
    IN  [ clp_labels |-> Flatten([ i \in DOMAIN blocks |-> blocks[i].clp_labels ]),
          matrix |-> [ t \in DOMAIN rows |->
                         Flatten([ i \in DOMAIN blocks |-> blocks[i].matrix[t] ]) ] ]

\* no clp: the argument clp is None
NoClp == [ coords |-> { }, clp_label |-> << >>, values |-> << >> ]

\* an xarray.DataArray of clp over (clp_label, global dimension): values[l][i]
Clp(coords, clp_label, values) ==
    [ coords |-> coords, clp_label |-> clp_label, values |-> values ]

\* numpy.dot of a row of a matrix and a vector
RECURSIVE Dot(_, _)
Dot(row, vector) ==
    IF row = << >> THEN 0 ELSE Head(row) * Head(vector) + Dot(Tail(row), Tail(vector))

\* a call of MatrixProvider.calculate_dataset_matrix
MatrixCall(global_index, global_matrix) ==
    [ global_index |-> global_index, global_matrix |-> global_matrix ]

\* the outcome of a simulation: the exception raised ("" if none), the
\* simulated data over (model, global) and the calls of
\* calculate_dataset_matrix, in order
Simulated(raised, data_, calls) == [ raised |-> raised, data |-> data_, calls |-> calls ]

\* simulate_from_clp with the matrix of the first global index used at every
\* global index
simulate_from_clp_first_matrix(dataset_model, global_axis, model_axis, clp) ==
    IF "clp_label" \notin clp.coords THEN Simulated("ValueError", << >>, << >>)
    ELSE LET dependent == is_index_dependent(dataset_model)
             first_matrix == calculate_dataset_matrix(dataset_model,
                                                      IF dependent THEN Num(1) ELSE None,
                                                      global_axis, model_axis, FALSE)
             calls == << MatrixCall(IF dependent THEN Num(1) ELSE None, FALSE) >>
             selected(i) == [ c \in DOMAIN first_matrix.clp_labels |->
                                clp.values[IndexOf(clp.clp_label, first_matrix.clp_labels[c])][i] ]
         IN  IF \E c \in DOMAIN first_matrix.clp_labels :
                    IndexOf(clp.clp_label, first_matrix.clp_labels[c]) = 0
             THEN Simulated("KeyError", << >>, calls)
             ELSE Simulated("", [ t \in DOMAIN model_axis |->
                                    [ i \in DOMAIN global_axis |->
                                        Dot(first_matrix.matrix[t], selected(i)) ] ],
                            calls)

\* simulate_from_clp
simulate_from_clp(dataset_model, global_axis, model_axis, clp) ==
    IF "clp_label" \notin clp.coords THEN Simulated("ValueError", << >>, << >>)
    ELSE LET dependent == is_index_dependent(dataset_model)
             indices == IF dependent THEN [ i \in DOMAIN global_axis |-> Num(i) ]
                        ELSE << None >>
             computed == [ j \in DOMAIN indices |->
                             calculate_dataset_matrix(dataset_model, indices[j], global_axis,
                                                      model_axis, FALSE) ]
             matrices == [ i \in DOMAIN global_axis |->
                             IF dependent THEN computed[i] ELSE computed[1] ]
             calls == [ j \in DOMAIN indices |-> MatrixCall(indices[j], FALSE) ]
             selected(i) == [ c \in DOMAIN matrices[i].clp_labels |->
                                clp.values[IndexOf(clp.clp_label, matrices[i].clp_labels[c])][i] ]
         IN  IF \E i \in DOMAIN global_axis : \E c \in DOMAIN matrices[i].clp_labels :
                    IndexOf(clp.clp_label, matrices[i].clp_labels[c]) = 0
             THEN Simulated("KeyError", << >>, calls)
             ELSE Simulated("", [ t \in DOMAIN model_axis |->
                                    [ i \in DOMAIN global_axis |->
                                        Dot(matrices[i].matrix[t], selected(i)) ] ],
                            calls)

\* simulate_full_model
simulate_full_model(dataset_model, global_axis, model_axis) ==
    IF \E i \in DOMAIN dataset_model.global_megacomplex :
           dataset_model.global_megacomplex[i].is_index_dependent
    THEN Simulated("ValueError", << >>, << >>)
    ELSE LET global_matrix == calculate_dataset_matrix(dataset_model, None, global_axis,
                                                       model_axis, TRUE)
             from_clp == simulate_from_clp(dataset_model, global_axis, model_axis,
                                           Clp({ "clp_label", "global" },
                                               global_matrix.clp_labels,
                                               Transpose(global_matrix.matrix)))
         IN  [ from_clp EXCEPT !.calls = << MatrixCall(None, TRUE) >> \o @ ]

\* simulate, without noise
simulate(dataset_model, global_axis, model_axis, clp) ==
    IF HasGlobalModel(dataset_model)
    THEN simulate_full_model(dataset_model, global_axis, model_axis)
    ELSE IF clp = NoClp THEN Simulated("ValueError", << >>, << >>)
    ELSE simulate_from_clp(dataset_model, global_axis, model_axis, clp)

\* ---- the explored simulations ----

ClpLabels == { << "s1" >>, << "s1", "s2" >> }

Megacomplexes ==
    { Megacomplex(l, d, b) : l \in ClpLabels, d \in BOOLEAN, b \in { 0, 1 } }

DatasetModels ==
    { [ megacomplex |-> << m >>, global_megacomplex |-> gm ] :
        m \in Megacomplexes, gm \in { << >> } \cup { << m2 >> : m2 \in Megacomplexes } }

SimulationAxes == { << 0 >>, << 1, 2 >> }

\* the clp given to a simulation over the global axis: None, or an array
\* with or without the coordinate clp_label
Clps(global_axis) ==
    { NoClp } \cup
    { Clp(coords, l, [ c \in DOMAIN l |-> [ i \in DOMAIN global_axis |-> v + c + global_axis[i] ] ]) :
        coords \in { { "global" }, { "clp_label", "global" } },
        l \in ClpLabels \cup { << "s2" >> }, v \in { 0, 1 } }

\* the arguments of a simulation, nothing simulated yet
SimulationInput(dataset_model, global_axis, model_axis, clp) ==
    [ name |-> "input", dataset_model |-> dataset_model, global_axis |-> global_axis,
      model_axis |-> model_axis, clp |-> clp, outcome |-> Simulated("", << >>, << >>) ]

\* simulate(model, dataset, parameters, coordinates, clp)
Simulate ==
    /\ simulation.name = "input"
    /\ simulation' = [ simulation EXCEPT
                         !.name = "simulate",
                         !.outcome = simulate(simulation.dataset_model, simulation.global_axis,
                                              simulation.model_axis, simulation.clp) ]
    /\ UNCHANGED << memory, scheme, provider, store, optimization_group >>

\* simulate_from_clp(dataset_model, ..., clp)
SimulateFromClp ==
    /\ simulation.name = "input"
    /\ simulation.clp # NoClp
    /\ simulation' = [ simulation EXCEPT
                         !.name = "simulate_from_clp",
                         !.outcome = simulate_from_clp(simulation.dataset_model,
                                                       simulation.global_axis,
                                                       simulation.model_axis, simulation.clp) ]
    /\ UNCHANGED << memory, scheme, provider, store, optimization_group >>

\* simulate_full_model(dataset_model, ...)
SimulateFullModel ==
    /\ simulation.name = "input"
    /\ simulation.clp = NoClp
    /\ simulation' = [ simulation EXCEPT
                         !.name = "simulate_full_model",
                         !.outcome = simulate_full_model(simulation.dataset_model,
                                                         simulation.global_axis,
                                                         simulation.model_axis) ]
    /\ UNCHANGED << memory, scheme, provider, store, optimization_group >>

InitSimulation ==
    /\ NoProvider
    /\ NoStore
    /\ optimization_group = << >>
    /\ simulation \in { SimulationInput(dm, ga, ma, clp) :
                          dm \in DatasetModels, ga \in SimulationAxes,
                          ma \in SimulationAxes, clp \in UNION { Clps(a) : a \in SimulationAxes } }
    /\ Len(simulation.clp.values) > 0 =>
          Len(simulation.clp.values[1]) = Len(simulation.global_axis)

NextSimulation ==
    \/ Simulate
    \/ SimulateFromClp
    \/ SimulateFullModel

SpecSimulation == InitSimulation /\ [][NextSimulation]_vars

\* C20: the outcome of simulate with a clp that is not None is the outcome of
\* the simulation from that clp, also for a dataset model with a global model.
C20_ProvidedClpUsed ==
    ( simulation # << >> /\ simulation.name = "simulate" /\ simulation.clp # NoClp )
        => LET from_clp == simulate_from_clp(simulation.dataset_model, simulation.global_axis,
                                             simulation.model_axis, simulation.clp)
           IN  /\ simulation.outcome.raised = from_clp.raised
               /\ simulation.outcome.data = from_clp.data

-----------------------------------------------------------------------------
(* Optimization group: the reduction of the matrices by relations *)

\* Relation(source, target, parameter, interval): the parameter is the value
\* of the scale, the interval None or a pair of bounds on the global axis
Relation(source, target, parameter, interval) ==
    [ source |-> source, target |-> target, parameter |-> parameter, interval |-> interval ]

\* the relation applies at a value of the global axis
Applies(relation, value) ==
    \/ relation.interval = None
    \/ /\ ~BoundGt(relation.interval[1], Fin(value))
       /\ ~BoundGt(Fin(value), relation.interval[2])

\* the relations that apply at a value of the global axis and whose source
\* and target are columns of the matrix
RelationsAt(relations, clp_labels, value) ==
    SelectSeq(relations, LAMBDA r : /\ Applies(r, value)
                                    /\ IndexOf(clp_labels, r.source) # 0
                                    /\ IndexOf(clp_labels, r.target) # 0)

\* the reduction that keeps the columns of the targets
reduce_keep_target(clp_labels, relations, value) == clp_labels

\* the clp labels of the reduced matrix at a value of the global axis: the
\* columns of the targets of the relations are dropped
reduce(clp_labels, relations, value) ==
    SelectSeq(clp_labels, LAMBDA label :
        \A i \in DOMAIN RelationsAt(relations, clp_labels, value) :
            RelationsAt(relations, clp_labels, value)[i].target # label)

\* the clp of all labels of the matrix from the clp estimated for the labels
\* of the reduced matrix: the clp of a target is the scale times the clp of
\* the source
reconstruct(clp_labels, reduced_labels, reduced_clps, relations, value) ==
    [ c \in DOMAIN clp_labels |->
        IF IndexOf(reduced_labels, clp_labels[c]) # 0
        THEN reduced_clps[IndexOf(reduced_labels, clp_labels[c])]
        ELSE LET applying == RelationsAt(relations, clp_labels, value)
                 r == applying[CHOOSE i \in DOMAIN applying : applying[i].target = clp_labels[c]]
             IN  IF IndexOf(reduced_labels, r.source) # 0
                 THEN r.parameter * reduced_clps[IndexOf(reduced_labels, r.source)]
                 ELSE 0 ]

\* ---- the explored optimization groups ----

MatrixLabels == { << "s1", "s2" >>, << "s1", "s2", "s3" >> }

Relations(clp_labels) ==
    { << >> } \cup
    { << Relation(source, target, parameter, interval) >> :
        source \in SeqToSet(clp_labels), target \in SeqToSet(clp_labels),
        parameter \in { 2, 3 }, interval \in { None, << Fin(1), Fin(1) >> } }

\* an optimization group of one dataset, nothing calculated yet
OptimizationGroup(link_clp, index_dependent, clp_labels, relations, global_axis) ==
    [ name |-> "input", link_clp |-> link_clp, is_index_dependent |-> index_dependent,
      clp_labels |-> clp_labels, clp_relations |-> relations, global_axis |-> global_axis,
      matrices |-> << >>, prepared_matrices |-> << >>, aligned_matrices |-> << >>,
      clps |-> << >>, result |-> << >> ]

\* OptimizationGroup.calculate: the matrices per index of the global axis,
\* their reduction (the aligned matrices when the clp are linked, the
\* prepared matrices of the dataset otherwise), the clp estimated for the
\* reduced matrices (any values) and the reconstruction of the clp removed
\* by the relations
Calculate ==
    /\ optimization_group.name = "input"
    /\ \E estimates \in [ SeqToSet(optimization_group.clp_labels) -> 0..MaxCoord ] :
          LET o == optimization_group
              indices == DOMAIN o.global_axis
              matrices == [ i \in indices |-> o.clp_labels ]
              reduced == [ i \in indices |->
                             reduce(matrices[i], o.clp_relations, o.global_axis[i]) ]
              reduced_clps == [ i \in indices |->
                                  [ c \in DOMAIN reduced[i] |-> estimates[reduced[i][c]] + i - 1 ] ]
          IN  optimization_group' =
                  [ o EXCEPT !.name = "calculate",
                             !.matrices = matrices,
                             !.prepared_matrices = IF o.link_clp THEN << >> ELSE reduced,
                             !.aligned_matrices = IF o.link_clp THEN reduced ELSE << >>,
                             !.clps = [ i \in indices |->
                                          reconstruct(matrices[i], reduced[i], reduced_clps[i],
                                                      o.clp_relations, o.global_axis[i]) ] ]
    /\ UNCHANGED << memory, scheme, provider, store, simulation >>

\* OptimizationGroup.create_result_data: the clp of the dataset with the
\* coordinate clp_label
CreateResultData ==
    /\ optimization_group.name = "calculate"
    /\ optimization_group' =
          [ optimization_group EXCEPT
              !.name = "create_result_data",
              !.result = [ clp_label |-> optimization_group.clp_labels,
                           clp |-> optimization_group.clps ] ]
    /\ UNCHANGED << memory, scheme, provider, store, simulation >>

InitOptimization ==
    /\ NoProvider
    /\ NoStore
    /\ simulation = << >>
    /\ optimization_group \in
          { OptimizationGroup(link_clp, index_dependent, clp_labels, relations, global_axis) :
              link_clp \in BOOLEAN, index_dependent \in BOOLEAN, clp_labels \in MatrixLabels,
              relations \in UNION { Relations(l) : l \in MatrixLabels },
              global_axis \in SimulationAxes }
    /\ \A i \in DOMAIN optimization_group.clp_relations :
          /\ optimization_group.clp_relations[i].source # optimization_group.clp_relations[i].target
          /\ IndexOf(optimization_group.clp_labels, optimization_group.clp_relations[i].source) # 0
          /\ IndexOf(optimization_group.clp_labels, optimization_group.clp_relations[i].target) # 0

NextOptimization ==
    \/ Calculate
    \/ CreateResultData

SpecOptimization == InitOptimization /\ [][NextOptimization]_vars

\* the reduced matrices of the optimization group: the aligned ones when the
\* clp are linked, the prepared ones of the dataset otherwise
ReducedMatrices ==
    IF optimization_group.link_clp THEN optimization_group.aligned_matrices
    ELSE optimization_group.prepared_matrices

\* C19: after calculate, for a relation that applies at an index of the
\* global axis, the target is no clp label of the reduced matrix and is a clp
\* label of the unreduced matrix; in the result data it is in the coordinate
\* clp_label and its clp is the clp of the source times the scale.
C19_RelationReconstruction ==
    ( optimization_group # << >> /\ optimization_group.name # "input" ) =>
        \A i \in DOMAIN optimization_group.global_axis :
            \A j \in DOMAIN optimization_group.clp_relations :
                LET o == optimization_group
                    r == o.clp_relations[j]
                IN  Applies(r, o.global_axis[i]) =>
                        /\ IndexOf(ReducedMatrices[i], r.target) = 0
                        /\ IndexOf(o.matrices[i], r.target) # 0
                        /\ o.name = "create_result_data" =>
                              /\ IndexOf(o.result.clp_label, r.target) # 0
                              /\ o.result.clp[i][IndexOf(o.result.clp_label, r.target)]
                                   = o.result.clp[i][IndexOf(o.result.clp_label, r.source)]
                                       * r.parameter

\* the result data of a group with the relation of s2 to s1, whose clp of s1
\* is not zero
C19_Witness ==
    /\ optimization_group # << >>
    /\ optimization_group.name = "create_result_data"
    /\ optimization_group.clp_relations = << Relation("s1", "s2", 2, None) >>
    /\ optimization_group.result.clp[1][1] # 0

\* C21: simulate raises ValueError exactly when the dataset model has no
\* global megacomplex and no clp is given, and returns a dataset in every
\* other case in which the clp, if given, has the coordinate clp_label;
\* simulate_from_clp raises ValueError for a clp without that coordinate.
C21_SimulateRaises ==
    /\ ( /\ simulation # << >>
         /\ simulation.name = "simulate"
         /\ simulation.clp = NoClp \/ "clp_label" \in simulation.clp.coords ) =>
          /\ simulation.outcome.raised = "ValueError" <=>
                ( ~HasGlobalModel(simulation.dataset_model) /\ simulation.clp = NoClp )
          /\ simulation.outcome.raised \in { "", "ValueError" }
    /\ ( /\ simulation # << >>
         /\ simulation.name = "simulate_from_clp"
         /\ "clp_label" \notin simulation.clp.coords ) =>
          simulation.outcome.raised = "ValueError"

\* the matrix that simulate_from_clp is to use at global index i
MatrixAt(i) ==
    calculate_dataset_matrix(simulation.dataset_model,
                             IF is_index_dependent(simulation.dataset_model) THEN Num(i) ELSE None,
                             simulation.global_axis, simulation.model_axis, FALSE)

\* C22: simulate_from_clp calls calculate_dataset_matrix once with index None
\* for an index-independent dataset model and once per global index, in axis
\* order, for an index-dependent one; column i of the data is the matrix of
\* index i times the clp at index i of that matrix's clp labels.
C22_MatrixPerIndex ==
    ( /\ simulation # << >>
      /\ simulation.name = "simulate_from_clp"
      /\ "clp_label" \in simulation.clp.coords ) =>
        /\ simulation.outcome.calls =
              IF is_index_dependent(simulation.dataset_model)
              THEN [ i \in DOMAIN simulation.global_axis |-> MatrixCall(Num(i), FALSE) ]
              ELSE << MatrixCall(None, FALSE) >>
        /\ simulation.outcome.raised = "" =>
              \A t \in DOMAIN simulation.model_axis : \A i \in DOMAIN simulation.global_axis :
                  simulation.outcome.data[t][i] =
                      Dot(MatrixAt(i).matrix[t],
                          [ c \in DOMAIN MatrixAt(i).clp_labels |->
                              simulation.clp.values[IndexOf(simulation.clp.clp_label,
                                                            MatrixAt(i).clp_labels[c])][i] ])

\* data simulated from a clp for an index-dependent dataset model over two
\* global indices
C22_Witness ==
    /\ simulation # << >>
    /\ simulation.name = "simulate_from_clp"
    /\ simulation.outcome.raised = ""
    /\ is_index_dependent(simulation.dataset_model)
    /\ Len(simulation.global_axis) = 2
    /\ Len(simulation.outcome.calls) = 2

-----------------------------------------------------------------------------
(* Parameter: the round trip through a dict *)

\* the parameters explored: Parameter(label=..., full_label=..., ...) with
\* any label and any full label
Parameters ==
    { [ Parameter(label, Num(value), expression, vary, Fin(0), Fin(9))
        EXCEPT !.full_label = full_label ] :
        label \in ParameterLabels \cup { NoLabel },
        full_label \in { << >>, << "1" >>, << "2" >>, << "a", "1" >>, << "a", "2" >>,
                         << "a", "b", "1" >> },
        value \in { 1, 2 },
        expression \in { NoExpression, ConstExpression(5) },
        vary \in BOOLEAN }

\* Parameter.from_dict(param.as_dict()) of the parameter built first
DictRoundtrip ==
    /\ Len(params) = 1
    /\ params' = params \o << from_dict(as_dict(params[1])) >>
    /\ op' = Outcome("from_dict", NoGroup, "")
    /\ UNCHANGED << memory, scheme, analysis, provider, groups >>

\* param.value = value on the parameter built first, before the round trip
SetValue ==
    /\ Len(params) = 1
    /\ op.name = "Parameter"
    /\ \E value \in { 3, 4 } : params' = [ params EXCEPT ![1].value = Num(value) ]
    /\ op' = Outcome("value", NoGroup, "")
    /\ UNCHANGED << memory, scheme, analysis, provider, groups >>

InitParameter ==
    /\ NoProvider
    /\ NoAnalysis
    /\ groups = << >>
    /\ params \in { << p >> : p \in Parameters }
    /\ op = Outcome("Parameter", NoGroup, "")

NextParameter ==
    \/ DictRoundtrip
    \/ SetValue

SpecParameter == InitParameter /\ [][NextParameter]_vars

\* the properties of a parameter that the round trip is to keep
\* (non_negative is False throughout)
Properties(p) ==
    [ label |-> p.label, full_label |-> p.full_label, expression |-> p.expression,
      maximum |-> p.maximum, minimum |-> p.minimum, value |-> p.value, vary |-> Vary(p) ]

RECURSIVE Subgroups(_)
Subgroups(g) ==
    UNION { { groups[g].items[i][2] } \cup Subgroups(groups[g].items[i][2]) :
              i \in DOMAIN groups[g].items }

\* C24: groups() raises nothing and yields every subgroup of the group and,
\* recursively, every subgroup of those.
C24_GroupsYielded ==
    ( op # << >> /\ op.name = "groups" ) =>
        /\ op.raised = ""
        /\ SeqToSet(groups_generator(groups, op.group).result) = Subgroups(op.group)

\* C25: set_from_label_and_value_arrays changes no parameter value when it
\* raises ValueError for labels and values of different lengths or
\* ParameterNotFoundException for a label that is not in the store.
C25_AllOrNothing ==
    /\ [] ( \A g \in DOMAIN groups, labels_ \in LabelArrays, values \in ValueArrays :
              Len(labels_) # Len(values) =>
                  set_from_label_and_value_arrays(groups, params, g, labels_, values).params
                      = params )
    /\ [][ ( /\ op'.name = "set_from_label_and_value_arrays"
             /\ op'.raised = "ParameterNotFoundException" )
           => \A pid \in DOMAIN params : params'[pid].value = params[pid].value ]_vars

\* C26: add_parameter adds one parameter to the parameters the group holds:
\* the label of the added parameter, given or assigned from the index, is
\* held by no other parameter of the group, and none is replaced.
C26_AddParameterKeepsAll ==
    [][ op'.name = "add_parameter" =>
          Len(groups'[op'.group].parameters) = Len(groups[op'.group].parameters) + 1 ]_vars

-----------------------------------------------------------------------------
(* The copy of a root store *)

\* the root of the copy of the store, NoGroup before the store is copied
CopyRoot ==
    IF \E g \in DOMAIN groups : g # 1 /\ groups[g].root_group = NoGroup
    THEN CHOOSE g \in DOMAIN groups : g # 1 /\ groups[g].root_group = NoGroup
    ELSE NoGroup

\* store.copy() of the root store, once
CopyStore ==
    /\ 1 \in Returned
    /\ CopyRoot = NoGroup
    /\ LET copied == copy(groups, params, 1)
       IN  /\ groups' = copied.groups
           /\ params' = copied.params
           /\ op' = Outcome("copy", 1, "")
    /\ UNCHANGED << memory, scheme, analysis, provider >>

\* parameters of the root and of a subgroup, with and without an expression
\* that refers to another one
CopyChoices ==
    { << << "1" >>, NoExpression, TRUE >>,
      << << "a", "1" >>, NoExpression, TRUE >>,
      << << "2" >>, RefExpression(<< "a", "1" >>, 1), TRUE >>,
      << << "a", "2" >>, RefExpression(<< "1" >>, 1), TRUE >> }

\* the labels and values set on a root store or on its copy
RootArrays ==
    { << << << "1" >> >>, << Num(5) >> >>,
      << << << "a", "1" >> >>, << Num(5) >> >>,
      << << << "a", "1" >>, << "1" >> >>, << Num(6), Num(5) >> >>,
      << << << "a", "1" >>, << "2" >> >>, << Num(5), Num(6) >> >>,
      << << << "1" >> >>, << Num(5), Num(6) >> >> }

\* store.set_from_label_and_value_arrays(labels, values) on the root store or
\* on its copy
SetFromLabelAndValueArraysOnRoot ==
    /\ \E g \in Returned \cap { 1, CopyRoot }, arrays \in RootArrays :
          LET set == set_from_label_and_value_arrays(groups, params, g, arrays[1], arrays[2])
          IN  /\ ValuesWithin(set.params)
              /\ params' = set.params
              /\ op' = Outcome("set_from_label_and_value_arrays", g, set.raised)
    /\ UNCHANGED << memory, scheme, analysis, provider, groups >>

\* stores of at most two parameters
InitCopy ==
    /\ NoProvider
    /\ NoAnalysis
    /\ groups = << >>
    /\ params = << >>
    /\ op \in { Input(l) : l \in ParameterDictLists(2, CopyChoices) }

NextCopy ==
    \/ FromParameterDictList
    \/ CopyStore
    \/ UpdateParameterExpression
    \/ SetFromLabelAndValueArraysOnRoot

SpecCopy == InitCopy /\ [][NextCopy]_vars

\* the labels and values of the parameters of the tree below group g under
\* the parameters P, in the order of all()
LabelsAndValues(P, g) ==
    [ i \in DOMAIN all(groups, g, << >>, TRUE) |->
        << all(groups, g, << >>, TRUE)[i][1], P[all(groups, g, << >>, TRUE)[i][2]].value >> ]

\* C27: the copy of a root store has the labels and values of the original in
\* the same traversal order; set_from_label_and_value_arrays and
\* update_parameter_expression on the copy or on a group of it leave the
\* values of the original unchanged, and vice versa; and when they return on
\* a root, a parameter whose expression refers to a parameter without
\* expression has the value the expression has on the values of that root.
C27_CopyIndependent ==
    /\ [] ( ( op # << >> /\ op.name = "copy" ) =>
              LabelsAndValues(params, CopyRoot) = LabelsAndValues(params, 1) )
    /\ [][ ( /\ CopyRoot # NoGroup
             /\ op'.name \in { "set_from_label_and_value_arrays", "update_parameter_expression" } )
           => /\ op'.group \in { CopyRoot } \cup Subgroups(CopyRoot) =>
                    LabelsAndValues(params', 1) = LabelsAndValues(params, 1)
              /\ op'.group \in { 1 } \cup Subgroups(1) =>
                    LabelsAndValues(params', CopyRoot) = LabelsAndValues(params, CopyRoot)
              /\ ( op'.raised = "" /\ op'.group \in { 1, CopyRoot } ) =>
                    \A pid \in InTree(op'.group) :
                        LET source == ParameterAt(op'.group, params[pid].expression.ref)
                        IN  ( /\ params[pid].expression.kind = "ref"
                              /\ source # 0
                              /\ params[source].expression = NoExpression )
                            => params'[pid].value
                                 = Num(params'[source].value[1] + params[pid].expression.plus)
       ]_vars

\* values were set on the copy of a store with a parameter that has an
\* expression, and the copy now differs from the original
C27_Witness ==
    /\ CopyRoot # NoGroup
    /\ op.name = "set_from_label_and_value_arrays"
    /\ op.group = CopyRoot
    /\ op.raised = ""
    /\ \E pid \in InTree(CopyRoot) : params[pid].expression.kind = "ref"
    /\ LabelsAndValues(params, CopyRoot) # LabelsAndValues(params, 1)

-----------------------------------------------------------------------------
(* The order of the datasets in the alignment *)

\* the loop of create_aligned_global_axes over the axes from the i-th on, the
\* values collected so far given: the exception raised and the values collected
RECURSIVE AlignedInOrder(_, _, _, _, _)
AlignedInOrder(axes, axis_values, tolerance, method, i) ==
    IF i > Len(axes) THEN [ raised |-> "", values |-> axis_values ]
    ELSE LET aligned == AlignAxis(axes[i], axis_values, tolerance, method)
         IN  IF axis_values # None /\ IsAmbiguous(aligned)
             THEN [ raised |-> "AlignDatasetError", values |-> axis_values ]
             ELSE AlignedInOrder(axes, MergeAxisValues(axis_values, aligned),
                                 tolerance, method, i + 1)

\* C28: the datasets processed in any other order raise AlignDatasetError
\* exactly when they do in the order given, and otherwise give the same set
\* of shared coordinates.
C28_OrderIndependent ==
    ( run = 1 /\ ( AlignedAxes \/ error = "AlignDatasetError" ) ) =>
        \A p \in Permutations(DOMAIN global_axes) :
            LET other == AlignedInOrder([ d \in DOMAIN global_axes |-> global_axes[p[d]] ],
                                        None, clp_link_tolerance, clp_link_method, 1)
            IN  /\ error = "AlignDatasetError" <=> other.raised = "AlignDatasetError"
                /\ error = "" =>
                      SeqToSet(other.values) = SeqToSet(aligned_axis_values)

-----------------------------------------------------------------------------
(* Intervals with infinite bounds *)

\* C29: for the interval of a model weight on the global axis of a dataset, an
\* infinite lower bound makes the slice start at index 0, an infinite upper
\* bound makes it end behind the last index, so that (-inf, +inf) selects
\* every point; the interval with its bounds swapped gives the same slice.
C29_InfiniteBounds ==
    \A d \in DOMAIN ds_global_axis, i \in DOMAIN model_weights :
        LET interval == model_weights[i].global_interval
            axis == ds_global_axis[d]
            swap == BoundGt(interval[1], interval[2])
            lower == IF swap THEN interval[2] ELSE interval[1]
            upper == IF swap THEN interval[1] ELSE interval[2]
            sl == get_axis_slice_from_interval(interval, axis)
        IN  interval # None =>
                /\ lower = NegInf => sl[1] = 0
                /\ upper = PosInf => sl[2] = Len(axis)
                /\ ( lower = NegInf /\ upper = PosInf ) =>
                      SlicePositions(sl, Len(axis)) = DOMAIN axis
                /\ get_axis_slice_from_interval(<< interval[2], interval[1] >>, axis) = sl

-----------------------------------------------------------------------------
(* The arrays of the datasets during the construction                     *)
(*                                                                         *)
(* The construction is followed on the numpy buffers: memory.arrays holds  *)
(* the buffers by identity, memory.dataset the references of               *)
(* scheme.data[label].data and .weight, and memory._weight, memory._data,  *)
(* memory._flattened_data and memory._flattened_weight the references the  *)
(* provider holds.                                                         *)

\* the array a reference reads
Deref(arrays, ref) ==
    IF ref = NoRef THEN None
    ELSE IF ref.T THEN Transpose(arrays[ref.buffer])
    ELSE arrays[ref.buffer]

\* no copy is made: the reference itself
ndarray_copy_same_buffer(arrays, ref) == [ arrays |-> arrays, ref |-> ref ]

\* numpy.ndarray.copy: a new buffer with what the reference reads
ndarray_copy(arrays, ref) ==
    [ arrays |-> Append(arrays, Deref(arrays, ref)), ref |-> Ref(Len(arrays) + 1, FALSE) ]

\* numpy.ndarray.T: the transposed view of the same buffer
ndarray_T(ref) == Ref(ref.buffer, ~ref.T)

\* numpy.ndarray.flatten: a new one-dimensional buffer
ndarray_flatten(arrays, ref) ==
    [ arrays |-> Append(arrays, FlattenArray(Deref(arrays, ref))),
      ref |-> Ref(Len(arrays) + 1, FALSE) ]

\* a *= b: the buffer of a is written through the reference
ndarray_imul(arrays, ref, b) ==
    [ arrays EXCEPT ![ref.buffer] =
        IF ref.T THEN Transpose(MulArray(Deref(arrays, ref), b))
        ELSE MulArray(Deref(arrays, ref), b) ]

\* DataProvider.get_from_dataset on the buffers: ref is dataset[name].data
\* (NoRef when the name is not in the dataset)
get_from_dataset_in_memory(arrays, ref, dims, model_dimension, global_dimension) ==
    IF ref = NoRef THEN [ arrays |-> arrays, ref |-> NoRef ]
    ELSE LET copied == ndarray_copy(arrays, ref)
         IN  IF dims # << model_dimension, global_dimension >>
             THEN [ arrays |-> copied.arrays, ref |-> ndarray_T(copied.ref) ]
             ELSE copied

\* DataProvider.add_model_weight on the buffers: w is self._weight[label]
add_model_weight_in_memory(arrays, w, label, model_axis, global_axis) ==
    LET amw == add_model_weight(Deref(arrays, w), label, model_axis, global_axis)
        mws == SelectSeq(model_weights, LAMBDA mw : label \in mw.datasets)
    IN  IF amw.raised = "" /\ ~amw.warn /\ mws # << >>
        THEN [ raised |-> "", arrays |-> Append(arrays, amw.weight),
               ref |-> Ref(Len(arrays) + 1, FALSE) ]
        ELSE [ raised |-> amw.raised, arrays |-> arrays, ref |-> w ]

\* DataProvider.__init__, the loop body for the next dataset
ConstructDataset ==
    /\ memory.error = ""
    /\ Len(memory._weight) < N
    /\ LET d == Len(memory._weight) + 1
           model_dimension == ds_model_dimension[d]
           global_dimension == infer_global_dimension(model_dimension, ds_dims[d])
           w0 == get_from_dataset_in_memory(memory.arrays, memory.dataset[d].weight,
                                            ds_dims[d], model_dimension, global_dimension)
           amw == add_model_weight_in_memory(w0.arrays, w0.ref, labels[d],
                                             ds_model_axis[d], ds_global_axis[d])
           d0 == get_from_dataset_in_memory(amw.arrays, memory.dataset[d].data,
                                            ds_dims[d], model_dimension, global_dimension)
           multiplied == IF amw.ref # NoRef
                         THEN ndarray_imul(d0.arrays, d0.ref, Deref(d0.arrays, amw.ref))
                         ELSE d0.arrays
           fd == ndarray_flatten(multiplied, ndarray_T(d0.ref))
           fw == IF amw.ref # NoRef THEN ndarray_flatten(fd.arrays, ndarray_T(amw.ref))
                 ELSE [ arrays |-> fd.arrays, ref |-> NoRef ]
       IN  memory' =
             IF amw.raised # ""
             THEN [ memory EXCEPT !.arrays = w0.arrays,
                                  !._weight = Append(@, w0.ref),
                                  !.error = amw.raised ]
             ELSE IF has_global_model[d]
             THEN [ memory EXCEPT !.arrays = fw.arrays,
                                  !._weight = Append(@, amw.ref),
                                  !._data = Append(@, d0.ref),
                                  !._flattened_data = @ @@ (d :> fd.ref),
                                  !._flattened_weight = @ @@ (d :> fw.ref) ]
             ELSE [ memory EXCEPT !.arrays = multiplied,
                                  !._weight = Append(@, amw.ref),
                                  !._data = Append(@, d0.ref) ]
    /\ UNCHANGED << scheme, provider, store, analysis >>

\* the buffers of the datasets before the construction: the data of the
\* dataset at position d in buffer 2d - 1, its weight, if any, in buffer 2d
InitMemory ==
    /\ InitInputs([ labels |-> { << "a" >>, << "a", "b" >> },
                    axes |-> [ d \in Nat |-> WeightAxes(d) ],
                    dims |-> { << "time", "spectral" >>, << "spectral", "time" >> },
                    nans |-> { {} },
                    weights |-> [ d \in Nat |-> AnyWeight(d) ],
                    model_weights |-> { << >>, << WholeWeight({ "a" }, 3) >>,
                                        << WholeWeight({ "a", "b" }, 3), WholeWeight({ "b" }, 5) >> },
                    tolerances |-> { 0 },
                    methods |-> { "nearest" },
                    global_model |-> BOOLEAN ])
    /\ memory = [ NoMemory EXCEPT
                    !.arrays = [ i \in 1..(2 * N) |->
                                   IF i % 2 = 1 THEN ds_data[(i + 1) \div 2]
                                   ELSE ds_weight[i \div 2] ],
                    !.dataset = [ d \in 1..N |->
                                    [ data |-> Ref(2 * d - 1, FALSE),
                                      weight |-> IF ds_weight[d] = None THEN NoRef
                                                 ELSE Ref(2 * d, FALSE) ] ] ]

NextMemory == ConstructDataset

SpecMemory == InitMemory /\ [][NextMemory]_vars

\* what the data and the weight of the dataset at position d read
DatasetArrays(m, d) ==
    [ data |-> Deref(m.arrays, m.dataset[d].data),
      weight |-> Deref(m.arrays, m.dataset[d].weight) ]

\* C30: no step of the construction changes what the data and the weight of a
\* dataset of the scheme hold, nor the buffers they refer to.
C30_DatasetsUnchanged ==
    [][ \A d \in DOMAIN memory.dataset :
          /\ memory'.dataset[d] = memory.dataset[d]
          /\ DatasetArrays(memory', d) = DatasetArrays(memory, d) ]_vars

\* C30 (witness): a dataset stored as (global, model) has been constructed, a
\* weight was applied, and the data of the provider differs from the data of
\* the dataset.
C30_Witness ==
    \E d \in DOMAIN memory._data :
        /\ ds_dims[d][1] # ds_model_dimension[d]
        /\ memory._weight[d] # NoRef
        /\ Deref(memory.arrays, memory._data[d])
             # Transpose(Deref(memory.arrays, memory.dataset[d].data))

====
